---- MODULE Spec2Model ----
(***************************************************************************)
(* Model of the resolution and batch-retrieval engine of TitleTrail:       *)
(*   backend/dropdown_utils.py     DropdownHandler (fuzzy option resolver, *)
(*                                 hissa selection)                        *)
(*   backend/scraper.py            RTCScraper (period/year resolver, cache *)
(*                                 file, retrieval loop)                   *)
(*   backend/document_processor.py DocumentProcessor (period/year resolver)*)
(*   backend/app.py                process_image_api and its run_scraper   *)
(*                                 thread                                  *)
(*   backend/rtc_scraper.py        RTCScraperIntegration (_process_        *)
(*                                 documents, _save_dropdown_mappings)     *)
(*   backend/image_processor.py    LandRecordImageProcessor                *)
(*                                 (_post_process_result)                  *)
(*                                                                         *)
(* Python strings are TLA+ strings; a dict is the sequence of its          *)
(* <<key, value>> items in insertion order (keys unique); None and a       *)
(* returned string are told apart by the record's isNone field.            *)
(***************************************************************************)
EXTENDS Integers, Sequences, FiniteSets, TLC

(***************************************************************************)
(* Python str operations used by the code.                                 *)
(***************************************************************************)
UpperChars == "ABCDEFGHIJKLMNOPQRSTUVWXYZ"
LowerChars == "abcdefghijklmnopqrstuvwxyz"

\* one character of str.lower()
LowerChar(c) ==
    IF \E i \in 1..Len(UpperChars) : SubSeq(UpperChars, i, i) = c
    THEN LET i == CHOOSE j \in 1..Len(UpperChars) : SubSeq(UpperChars, j, j) = c
         IN  SubSeq(LowerChars, i, i)
    ELSE c

RECURSIVE StrLower(_)
\* s.lower()
StrLower(s) ==
    IF s = "" THEN ""
    ELSE LowerChar(SubSeq(s, 1, 1)) \o StrLower(SubSeq(s, 2, Len(s)))

RECURSIVE StrStrip(_)
\* s.strip(): leading and trailing whitespace removed
StrStrip(s) ==
    IF s = "" THEN ""
    ELSE IF SubSeq(s, 1, 1) = " " THEN StrStrip(SubSeq(s, 2, Len(s)))
    ELSE IF SubSeq(s, Len(s), Len(s)) = " " THEN StrStrip(SubSeq(s, 1, Len(s) - 1))
    ELSE s

\* sub in s
StrContains(sub, s) ==
    \E i \in 1..(Len(s) - Len(sub) + 1) : SubSeq(s, i, i + Len(sub) - 1) = sub

RECURSIVE StrRemove(_, _)
\* s.replace(word, ""): every non-overlapping occurrence, left to right
StrRemove(s, word) ==
    IF Len(s) < Len(word) THEN s
    ELSE IF SubSeq(s, 1, Len(word)) = word
         THEN StrRemove(SubSeq(s, Len(word) + 1, Len(s)), word)
         ELSE SubSeq(s, 1, 1) \o StrRemove(SubSeq(s, 2, Len(s)), word)

RECURSIVE StrReplaceChar(_, _, _)
\* s.replace(old, new) for single characters
StrReplaceChar(s, old, new) ==
    IF s = "" THEN ""
    ELSE (IF SubSeq(s, 1, 1) = old THEN new ELSE SubSeq(s, 1, 1))
         \o StrReplaceChar(SubSeq(s, 2, Len(s)), old, new)

\* set(s.split()): the maximal runs of non-whitespace characters
StrWords(s) ==
    { SubSeq(s, i, j) : <<i, j>> \in
        { p \in (1..Len(s)) \X (1..Len(s)) :
            /\ p[1] <= p[2]
            /\ \A k \in p[1]..p[2] : SubSeq(s, k, k) # " "
            /\ (p[1] = 1 \/ SubSeq(s, p[1] - 1, p[1] - 1) = " ")
            /\ (p[2] = Len(s) \/ SubSeq(s, p[2] + 1, p[2] + 1) = " ") } }

(***************************************************************************)
(* Python dict: items in insertion order, keys unique.                     *)
(***************************************************************************)
DictHas(d, k) == \E i \in 1..Len(d) : d[i][1] = k

DictGet(d, k) == d[CHOOSE i \in 1..Len(d) : d[i][1] = k][2]

\* d[k] = v: an existing key keeps its position and takes the new value
DictPut(d, k, v) ==
    IF DictHas(d, k)
    THEN [i \in 1..Len(d) |-> IF d[i][1] = k THEN <<k, v>> ELSE d[i]]
    ELSE Append(d, <<k, v>>)

DictKeys(d) == [i \in 1..Len(d) |-> d[i][1]]

DictValues(d) == [i \in 1..Len(d) |-> d[i][2]]

\* a function result: None, or a string
PyNone == [isNone |-> TRUE, val |-> ""]

PyStr(s) == [isNone |-> FALSE, val |-> s]


(***************************************************************************)
(* DropdownHandler.find_best_match (dropdown_utils.py).                    *)
(***************************************************************************)
NoiseWords == <<"district", "taluk", "hobli", "village">>

RECURSIVE SimplifyFrom(_, _)
SimplifyFrom(text, k) ==
    IF k > Len(NoiseWords) THEN text
    ELSE SimplifyFrom(StrStrip(StrRemove(text, NoiseWords[k])), k + 1)

\* for word in [...]: simplified = simplified.replace(word, "").strip()
simplify(text) == SimplifyFrom(text, 1)

\* text.lower().strip()
normalize(text) == StrStrip(StrLower(text))

RECURSIVE NormalizedFrom(_, _, _)
NormalizedFrom(options_map, i, acc) ==
    IF i > Len(options_map) THEN acc
    ELSE LET text            == options_map[i][1]
             value           == options_map[i][2]
             normalized_text == normalize(text)
             simplified_text == simplify(normalized_text)
             acc1            == DictPut(acc, normalized_text, <<text, value>>)
             acc2            == IF simplified_text # "" /\ simplified_text # normalized_text
                                THEN DictPut(acc1, simplified_text, <<text, value>>)
                                ELSE acc1
         IN  NormalizedFrom(options_map, i + 1, acc2)

RECURSIVE NormalizedOnlyFrom(_, _, _)
NormalizedOnlyFrom(options_map, i, acc) ==
    IF i > Len(options_map) THEN acc
    ELSE NormalizedOnlyFrom(options_map, i + 1,
             DictPut(acc, normalize(options_map[i][1]), options_map[i]))

\* a variant of normalized_options that never stores the simplified keys
normalized_options_no_simplified(options_map) == NormalizedOnlyFrom(options_map, 1, <<>>)

\* the dict normalized_options: key -> (original_text, value)
normalized_options(options_map) == NormalizedFrom(options_map, 1, <<>>)

RECURSIVE ContainsFrom(_, _, _, _)
ContainsFrom(target_lower, d, i, best) ==
    IF i > Len(d) THEN best
    ELSE LET norm_text == d[i][1]
             hit       == StrContains(target_lower, norm_text)
                            \/ StrContains(norm_text, target_lower)
             better    == hit /\ Len(norm_text) > best.length
         IN  ContainsFrom(target_lower, d, i + 1,
                 IF better
                 THEN [found |-> TRUE, match |-> d[i][2], length |-> Len(norm_text)]
                 ELSE best)

\* tier 3: the loop over normalized_options keeping the longest containing key
contains_match(target_lower, d) ==
    ContainsFrom(target_lower, d, 1,
                 [found |-> FALSE, match |-> <<"", "">>, length |-> 0])

RECURSIVE WordsFrom(_, _, _, _)
WordsFrom(target_words, d, i, best) ==
    IF i > Len(d) THEN best
    ELSE LET score == Cardinality(target_words \cap StrWords(d[i][1]))
         IN  WordsFrom(target_words, d, i + 1,
                 IF score > best.score
                 THEN [found |-> TRUE, match |-> d[i][2], score |-> score]
                 ELSE best)

\* tier 4: the loop over normalized_options keeping the highest word overlap
word_match(target_lower, d) ==
    WordsFrom(StrWords(target_lower), d, 1,
              [found |-> FALSE, match |-> <<"", "">>, score |-> 0])

\* a variant of the empty-map guard that hands the target back as the value
no_options_result_echo(target_name) == PyStr(target_name)

\* if not options_map: return None
no_options_result(target_name) == PyNone

\* a variant of tier 5 that gives up instead of taking the first option
fallback_result_none(options_map) == PyNone

\* tier 5: the first option of options_map
fallback_result(options_map) ==
    IF options_map # <<>> THEN PyStr(options_map[1][2]) ELSE PyNone

find_best_match(target_name, options_map) ==
    IF options_map = <<>> THEN no_options_result(target_name)
    ELSE LET d                 == normalized_options(options_map)
             target_lower      == normalize(target_name)
             simplified_target == simplify(target_lower)
             contains          == contains_match(target_lower, d)
             words             == word_match(target_lower, d)
         IN  IF DictHas(d, target_lower) THEN PyStr(DictGet(d, target_lower)[2])
             ELSE IF DictHas(d, simplified_target)
                  THEN PyStr(DictGet(d, simplified_target)[2])
             ELSE IF contains.found THEN PyStr(contains.match[2])
             ELSE IF words.found /\ words.score > 0 THEN PyStr(words.match[2])
             ELSE fallback_result(options_map)


(***************************************************************************)
(* DropdownHandler.select_hissa (dropdown_utils.py).  all_options is the   *)
(* list of <option> elements of the hissa dropdown as <<text, value>>; an  *)
(* absent or empty value attribute is "".                                  *)
(***************************************************************************)
RECURSIVE ValidFrom(_, _)
ValidFrom(all_options, i) ==
    IF i > Len(all_options) THEN <<>>
    ELSE LET text  == StrStrip(all_options[i][1])
             value == all_options[i][2]
             keep  == value # "" /\ value # "0" /\ ~StrContains("select", StrLower(text))
         IN  (IF keep THEN << <<text, value>> >> ELSE <<>>) \o ValidFrom(all_options, i + 1)

\* the list valid_options
valid_options(all_options) == ValidFrom(all_options, 1)

\* the value of the first option of opts whose text or value is wanted, else None
first_text_or_value(opts, wanted) ==
    IF \E i \in 1..Len(opts) : opts[i][1] = wanted \/ opts[i][2] = wanted
    THEN LET i == CHOOSE j \in 1..Len(opts) :
                     /\ opts[j][1] = wanted \/ opts[j][2] = wanted
                     /\ \A k \in 1..(j - 1) : opts[k][1] # wanted /\ opts[k][2] # wanted
         IN  PyStr(opts[i][2])
    ELSE PyNone

\* a Python value used as a condition: None and "" are false
Truthy(r) == ~r.isNone /\ r.val # ""

\* a variant that tries the "1A" alias for every request
hissa_selected_value_no_guard(all_options, requested_hissa) ==
    LET valid == valid_options(all_options)
        exact == first_text_or_value(valid, requested_hissa)
        alias == IF ~Truthy(exact) THEN first_text_or_value(valid, "1A") ELSE exact
    IN  IF ~Truthy(alias) /\ valid # <<>> THEN PyStr(valid[1][2]) ELSE alias

\* the local selected_value of select_hissa when it reaches "# Select the Hissa"
hissa_selected_value(all_options, requested_hissa) ==
    LET valid == valid_options(all_options)
        exact == first_text_or_value(valid, requested_hissa)
        alias == IF ~Truthy(exact) /\ requested_hissa = "1"
                 THEN first_text_or_value(valid, "1A")
                 ELSE exact
    IN  IF ~Truthy(alias) /\ valid # <<>> THEN PyStr(valid[1][2]) ELSE alias


(***************************************************************************)
(* The period/year resolver: RTCScraper._get_values_for_year_period        *)
(* (scraper.py) and DocumentProcessor.get_values_for_year_period           *)
(* (document_processor.py).  An index is the three dicts period_mapping    *)
(* (text -> value), year_mapping (text -> value) and                       *)
(* period_to_year_mapping (period value -> dict of year text -> value).    *)
(***************************************************************************)
fiscal_year_patterns ==
    << <<"2012-13", <<"2012-2013", "2012-13">> >>,
       <<"2013-14", <<"2013-2014", "2013-14">> >>,
       <<"2014-15", <<"2014-2015", "2014-15">> >>,
       <<"2015-16", <<"2015-2016", "2015-16">> >>,
       <<"2016-17", <<"2016-2017", "2016-17">> >>,
       <<"2017-18", <<"2017-2018", "2017-18">> >>,
       <<"2018-19", <<"2018-2019", "2018-19">> >>,
       <<"2019-20", <<"2019-2020", "2019-20">> >>,
       <<"2020-21", <<"2020-2021", "2020-21">> >> >>

\* self.fiscal_year_patterns.get(year_period, [year_period])
patterns_for(year_period) ==
    IF DictHas(fiscal_year_patterns, year_period)
    THEN DictGet(fiscal_year_patterns, year_period)
    ELSE <<year_period>>

general_periods == <<"2001-08-25 00:00:00 To 2020-03-10 17:17:00">>

\* what the resolver returns: a (period_value, year_value) tuple; a resolver
\* returning no pair would return (None, None)
Pair(pv, yv) == [found |-> TRUE, period_value |-> pv, year_value |-> yv]

NotFound == [found |-> FALSE, period_value |-> "", year_value |-> ""]

\* return "15-164943", "113"
hardcoded_pair == Pair("15-164943", "113")

\* the first index of years whose entry satisfies ok (the entry a loop with
\* break or return stops at), else 0
FirstYear(years, ok(_)) ==
    LET S == {i \in 1..Len(years) : ok(years[i])}
    IN  IF S = {} THEN 0 ELSE CHOOSE i \in S : \A j \in S : i <= j

\* a variant of the scraper's loop body that takes the period's first year
\* without looking for a matching one
scraper_period_hit_first_year(year_period, pattern, period_value, index) ==
    IF ~DictHas(index.period_to_year_mapping, period_value) THEN NotFound
    ELSE LET years   == DictGet(index.period_to_year_mapping, period_value)
             notdef(y)  == y[1] # "Select Year"
             f       == FirstYear(years, notdef)
         IN  IF f # 0 /\ years[f][1] # "" THEN Pair(period_value, years[f][2])
             ELSE NotFound

\* scraper.py: the body of "if pattern in period_text:" for one period
scraper_period_hit(year_period, pattern, period_value, index) ==
    IF ~DictHas(index.period_to_year_mapping, period_value) THEN NotFound
    ELSE LET years   == DictGet(index.period_to_year_mapping, period_value)
             matches(y) == /\ y[1] # "Select Year"
                           /\ StrContains(pattern, y[1]) \/ StrContains(year_period, y[1])
             notdef(y)  == y[1] # "Select Year"
             m       == FirstYear(years, matches)
             f       == FirstYear(years, notdef)
         IN  IF years = <<>> THEN NotFound
             ELSE IF m # 0 /\ years[m][2] # "" THEN Pair(period_value, years[m][2])
             ELSE IF f # 0 /\ years[f][1] # "" THEN Pair(period_value, years[f][2])
             ELSE NotFound

\* document_processor.py: the body of "for period_text, period_value in
\* matching_periods.items():" for one period
processor_period_hit(year_period, pattern, period_value, index) ==
    IF ~DictHas(index.period_to_year_mapping, period_value) THEN NotFound
    ELSE LET years   == DictGet(index.period_to_year_mapping, period_value)
             matches(y) == /\ y[1] # "Select Year"
                           /\ StrContains(pattern, y[1]) \/ StrContains(year_period, y[1])
             notdef(y)  == y[1] # "Select Year"
             m       == FirstYear(years, matches)
             f       == FirstYear(years, notdef)
         IN  IF years = <<>> THEN NotFound
             ELSE IF m # 0 THEN Pair(period_value, years[m][2])
             ELSE IF f # 0 THEN Pair(period_value, years[f][2])
             ELSE NotFound

\* the loops "for pattern in patterns: for period_text, period_value in
\* period_mapping.items()", from pattern k and period i on; in_scraper tells
\* which file's loop body runs
RECURSIVE PatternLoop(_, _, _, _, _)
PatternLoop(year_period, index, k, i, in_scraper) ==
    LET patterns == patterns_for(year_period)
        pm       == index.period_mapping
    IN  IF k > Len(patterns) THEN NotFound
        ELSE IF i > Len(pm) THEN PatternLoop(year_period, index, k + 1, 1, in_scraper)
        ELSE LET r == IF pm[i][1] # "Select Period" /\ StrContains(patterns[k], pm[i][1])
                      THEN IF in_scraper
                           THEN scraper_period_hit(year_period, patterns[k], pm[i][2], index)
                           ELSE processor_period_hit(year_period, patterns[k], pm[i][2], index)
                      ELSE NotFound
             IN  IF r.found THEN r
                 ELSE PatternLoop(year_period, index, k, i + 1, in_scraper)

\* the block "for period_text in general_periods"; skip_default is the
\* "Select Year" test of document_processor.py, absent from scraper.py
general_period_match(year_period, index, skip_default) ==
    LET patterns == patterns_for(year_period)
        pm       == index.period_mapping
        gp       == general_periods[1]
    IN  IF ~DictHas(pm, gp) THEN NotFound
        ELSE LET period_value == DictGet(pm, gp)
             IN  IF ~DictHas(index.period_to_year_mapping, period_value) THEN NotFound
                 ELSE LET years == DictGet(index.period_to_year_mapping, period_value)
                          ok(y) == /\ ~(skip_default /\ y[1] = "Select Year")
                                   /\ \E k \in 1..Len(patterns) : StrContains(patterns[k], y[1])
                          m     == FirstYear(years, ok)
                      IN  IF m # 0 THEN Pair(period_value, years[m][2]) ELSE NotFound

\* the block "Final fallback", from entry i of period_to_year_mapping on;
\* skip_default as above
RECURSIVE FallbackLoop(_, _, _)
FallbackLoop(index, i, skip_default) ==
    LET p2y == index.period_to_year_mapping
    IN  IF i > Len(p2y) THEN NotFound
        ELSE LET period_value == p2y[i][1]
                 years        == p2y[i][2]
                 ok(y)        == /\ y[2] # "0"
                                 /\ ~(skip_default /\ y[1] = "Select Year")
                 m            == FirstYear(years, ok)
             IN  IF years # <<>> /\ period_value # "0" /\ m # 0
                 THEN Pair(period_value, years[m][2])
                 ELSE FallbackLoop(index, i + 1, skip_default)

\* a variant whose last statement reports that nothing was found
last_resort_none(year_period) == NotFound

\* the last statement of both resolvers
last_resort(year_period) == hardcoded_pair

\* RTCScraper._get_values_for_year_period, after its cache-file preamble
scraper_values_for_year_period(year_period, index) ==
    LET a == PatternLoop(year_period, index, 1, 1, TRUE)
        b == general_period_match(year_period, index, FALSE)
        c == FallbackLoop(index, 1, FALSE)
    IN  IF a.found THEN a ELSE IF b.found THEN b ELSE IF c.found THEN c
        ELSE last_resort(year_period)

\* DocumentProcessor.get_values_for_year_period
get_values_for_year_period(year_period, index) ==
    LET a == PatternLoop(year_period, index, 1, 1, FALSE)
        b == general_period_match(year_period, index, TRUE)
        c == FallbackLoop(index, 1, TRUE)
    IN  IF a.found THEN a ELSE IF b.found THEN b ELSE IF c.found THEN c
        ELSE last_resort(year_period)


(***************************************************************************)
(* The cache file dropdown_mappings.json.  A JSON text is modelled as its  *)
(* parse tree: an object is the sequence of its members <<name, value>> in *)
(* file order, a value is a string node or an object node.                 *)
(***************************************************************************)
NoFile == [exists |-> FALSE, members |-> <<>>]

JsonStr(s) == [t |-> "string", s |-> s, members |-> <<>>]

JsonObj(members) == [t |-> "object", s |-> "", members |-> members]

\* json.dump of a dict of str -> str
dump_str_dict(d) == JsonObj([i \in 1..Len(d) |-> <<d[i][1], JsonStr(d[i][2])>>])

\* json.dump of a dict of str -> dict of str -> str
dump_nested_dict(d) == JsonObj([i \in 1..Len(d) |-> <<d[i][1], dump_str_dict(d[i][2])>>])

\* a writer that leaves the year mapping out of the file
json_dump_mappings_without_years(index) ==
    [exists  |-> TRUE,
     members |-> << <<"period_mapping", dump_str_dict(index.period_mapping)>>,
                    <<"period_to_year_mapping",
                      dump_nested_dict(index.period_to_year_mapping)>> >>]

\* mappings_data and json.dump(mappings_data, f, indent=2)
json_dump_mappings(index) ==
    [exists  |-> TRUE,
     members |-> << <<"period_mapping", dump_str_dict(index.period_mapping)>>,
                    <<"year_mapping", dump_str_dict(index.year_mapping)>>,
                    <<"period_to_year_mapping",
                      dump_nested_dict(index.period_to_year_mapping)>> >>]

RECURSIVE LoadStrDictFrom(_, _, _)
LoadStrDictFrom(members, i, acc) ==
    IF i > Len(members) THEN acc
    ELSE LoadStrDictFrom(members, i + 1, DictPut(acc, members[i][1], members[i][2].s))

\* json.load of an object of strings: members inserted in file order
load_str_dict(node) == LoadStrDictFrom(node.members, 1, <<>>)

RECURSIVE LoadNestedDictFrom(_, _, _)
LoadNestedDictFrom(members, i, acc) ==
    IF i > Len(members) THEN acc
    ELSE LoadNestedDictFrom(members, i + 1,
             DictPut(acc, members[i][1], load_str_dict(members[i][2])))

load_nested_dict(node) == LoadNestedDictFrom(node.members, 1, <<>>)

\* mappings.get(name, {}) on the loaded file
json_member(file, name) ==
    IF DictHas(file.members, name) THEN DictGet(file.members, name) ELSE JsonObj(<<>>)

\* a loader that asks the file for a member name it does not hold
json_load_mappings_wrong_key(file) ==
    [period_mapping         |-> load_str_dict(json_member(file, "period_mapping")),
     year_mapping           |-> load_str_dict(json_member(file, "year_mapping")),
     period_to_year_mapping |-> load_nested_dict(json_member(file, "period_to_year"))]

\* mappings = json.load(f) and the three mappings.get(...) assignments
json_load_mappings(file) ==
    [period_mapping         |-> load_str_dict(json_member(file, "period_mapping")),
     year_mapping           |-> load_str_dict(json_member(file, "year_mapping")),
     period_to_year_mapping |-> load_nested_dict(json_member(file, "period_to_year_mapping"))]

RECURSIVE YearMappingFrom(_, _, _)
YearMappingFrom(p2y, i, acc) ==
    IF i > Len(p2y) THEN acc
    ELSE LET RECURSIVE PutAll(_, _)
             PutAll(j, a) == IF j > Len(p2y[i][2]) THEN a
                             ELSE PutAll(j + 1, DictPut(a, p2y[i][2][j][1], p2y[i][2][j][2]))
         IN  YearMappingFrom(p2y, i + 1, PutAll(1, acc))

\* self.year_mapping[text] = value over every period's year options
year_mapping_of(p2y) == YearMappingFrom(p2y, 1, <<>>)


(***************************************************************************)
(* RTCScraper._extract_and_save_dropdown_mappings and the retrieval loop   *)
(* of RTCScraper._run_workflow (scraper.py).  A site is what the form      *)
(* shows once the initial form is filled: the <option> elements of the     *)
(* period dropdown and, per period value, those of the year dropdown.      *)
(***************************************************************************)
\* self.year_range
year_range ==
    <<"2012-13", "2013-14", "2014-15", "2015-16", "2016-17",
      "2017-18", "2018-19", "2019-20", "2020-21">>

RECURSIVE ExtractFrom(_, _, _)
ExtractFrom(raw, i, acc) ==
    IF i > Len(raw) THEN acc
    ELSE ExtractFrom(raw, i + 1,
             IF raw[i][2] # "" /\ raw[i][2] # "0"
             THEN DictPut(acc, StrStrip(raw[i][1]), raw[i][2])
             ELSE acc)

\* the loop "for option in ...: if value and value != "0": d[text] = value"
\* over the <option> elements raw, adding to the dict acc
extract_options(raw, acc) == ExtractFrom(raw, 1, acc)

RECURSIVE ExtractYearsFrom(_, _, _, _)
ExtractYearsFrom(site, pm, i, index) ==
    IF i > Len(pm) THEN index
    ELSE LET period_value == pm[i][2]
             raw          == IF DictHas(site.year_options, period_value)
                             THEN DictGet(site.year_options, period_value)
                             ELSE <<>>
             period_years == extract_options(raw, <<>>)
         IN  ExtractYearsFrom(site, pm, i + 1,
                 [period_mapping         |-> index.period_mapping,
                  year_mapping           |-> extract_options(raw, index.year_mapping),
                  period_to_year_mapping |->
                      DictPut(index.period_to_year_mapping, period_value, period_years)])

\* the mappings after the period options were read into period_mapping
index_with_periods(site, index) ==
    [period_mapping         |-> extract_options(site.period_options, index.period_mapping),
     year_mapping           |-> index.year_mapping,
     period_to_year_mapping |-> index.period_to_year_mapping]

\* the mappings after the whole live discovery
extracted_index(site, index) ==
    LET withp == index_with_periods(site, index)
    IN  ExtractYearsFrom(site, withp.period_mapping, 1, withp)

\* a variant of the loop's test that calls the capture when either value is set
should_capture_either(pair) ==
    pair.found /\ (pair.period_value # "" \/ pair.year_value # "")

\* if period_value and year_value:
should_capture(pair) ==
    pair.found /\ pair.period_value # "" /\ pair.year_value # ""

\* the page operations of _get_document_for_period, in program order
capture_operations ==
    <<"wait_period_enabled", "select_period", "wait_load", "wait_year_enabled",
      "select_year", "click_fetch", "wait_load_details", "count_section",
      "click_section", "click_section_again", "count_view", "click_view",
      "wait_load_popup", "screenshot_popup", "close_popup">>

\* the operations issued up to and including the first one named op
operations_through(op) ==
    SubSeq(capture_operations, 1,
           CHOOSE k \in 1..Len(capture_operations) :
               /\ capture_operations[k] = op
               /\ \A m \in 1..(k - 1) : capture_operations[m] # op)

\* how a call of _get_document_for_period can end: the operation it ends at
\* and whether it raises there
capture_endings ==
    { [kind |-> "saved",       at |-> "close_popup",         raises |-> FALSE],
      [kind |-> "no_section",  at |-> "count_section",       raises |-> FALSE],
      [kind |-> "no_view",     at |-> "count_view",          raises |-> FALSE],
      [kind |-> "failed",      at |-> "wait_period_enabled", raises |-> TRUE],
      [kind |-> "failed",      at |-> "click_view",          raises |-> TRUE],
      [kind |-> "failed",      at |-> "screenshot_popup",    raises |-> TRUE] }


\* a variant of the cascade that selects the hissa before waiting for it
form_operations_hissa_unwaited ==
    << [kind |-> "goto",   field |-> "base_url"],
       [kind |-> "click",  field |-> "old_year"],
       [kind |-> "select", field |-> "district"],
       [kind |-> "wait",   field |-> "taluk"],
       [kind |-> "select", field |-> "taluk"],
       [kind |-> "wait",   field |-> "hobli"],
       [kind |-> "select", field |-> "hobli"],
       [kind |-> "wait",   field |-> "village"],
       [kind |-> "select", field |-> "village"],
       [kind |-> "click",  field |-> "survey_number"],
       [kind |-> "fill",   field |-> "survey_number"],
       [kind |-> "click",  field |-> "go"],
       [kind |-> "click",  field |-> "go"],
       [kind |-> "wait",   field |-> "surnoc"],
       [kind |-> "select", field |-> "surnoc"],
       [kind |-> "select", field |-> "hissa"],
       [kind |-> "wait",   field |-> "hissa"] >>

\* the page operations of _fill_initial_form, in program order
form_operations ==
    << [kind |-> "goto",   field |-> "base_url"],
       [kind |-> "click",  field |-> "old_year"],
       [kind |-> "select", field |-> "district"],
       [kind |-> "wait",   field |-> "taluk"],
       [kind |-> "select", field |-> "taluk"],
       [kind |-> "wait",   field |-> "hobli"],
       [kind |-> "select", field |-> "hobli"],
       [kind |-> "wait",   field |-> "village"],
       [kind |-> "select", field |-> "village"],
       [kind |-> "click",  field |-> "survey_number"],
       [kind |-> "fill",   field |-> "survey_number"],
       [kind |-> "click",  field |-> "go"],
       [kind |-> "click",  field |-> "go"],
       [kind |-> "wait",   field |-> "surnoc"],
       [kind |-> "select", field |-> "surnoc"],
       [kind |-> "wait",   field |-> "hissa"],
       [kind |-> "select", field |-> "hissa"] >>

\* a variant of the workflow that goes on to the extraction after an
\* exception of _fill_initial_form
after_form_swallowed(raised) == "extract"

\* where _run_workflow stands after _fill_initial_form: its exception is
\* caught by the outer "except Exception"
after_form(raised) == IF raised THEN "outer_except" ELSE "extract"

(***************************************************************************)
(* State.                                                                  *)
(***************************************************************************)
VARIABLES
    \* a call of find_best_match: its arguments, its position, what it returned
    target_name, options_map, fbm_pc, fbm_return,
    \* a call of select_hissa: the <option> elements of the hissa dropdown, the
    \* argument, its position, the option the page has selected, what it returned
    all_options, requested_hissa, hissa_pc, hissa_selected, hissa_return,
    \* the index of an RTCScraper (self.period_mapping, self.year_mapping,
    \* self.period_to_year_mapping) and the file dropdown_mappings.json
    period_mapping, year_mapping, period_to_year_mapping, cache_file,
    \* calls of the two period/year resolvers for one fiscal label: the label,
    \* the position of the calling sequence, and every call made so far with
    \* the pair it returned
    year_period, resolver_pc, resolutions,
    \* a run of RTCScraper._run_workflow: what the form of the site shows, the
    \* position of the run, the position of the loop in year_range, the labels
    \* the loop has started, how each label ended, the arguments of the capture
    \* in progress, the files under documents/, whether the browser is open,
    \* whether _extract_and_save_dropdown_mappings returned, and whether the
    \* run ended with an exception
    site, run_pc, loop_i, attempted, outcomes, capture_args, documents,
    browser_open, setup_done, run_failed,
    \* the page operations _fill_initial_form has issued, and whether the last
    \* of them raised
    form_log, form_raised,
    \* dropdown_mappings.json as it was before the run, how the live discovery
    \* of the run ended ("not_run", "completed", "raised"), where the mappings
    \* were last assigned from ("none", "live", "cache"), and whether the run
    \* has written the file
    prior_cache, live_discovery, index_source, cache_written,
    \* a call of one of the two waits (RTCScraper._wait_for_enabled or
    \* DropdownHandler.wait_for_enabled): which one, its selector and timeout,
    \* its position, the seconds since start_time, what the page holds for the
    \* field (its "disabled" attribute and the number of its <option>
    \* elements), the polls that did not return, and the clicks issued
    wait_impl, wait_selector, wait_timeout, wait_pc, elapsed,
    field_disabled, field_options, failed_polls, clicks,
    \* the loop of run_scraper that stores the scraped images: the list
    \* image_callback filled, the position of the loop, the images
    \* store_property_image was called for, the rows it saved and the errors logged
    scraped_images, store_pc, store_i, store_attempts, image_rows, store_errors,
    \* an extraction of the options of one dropdown: the function that runs it,
    \* the <option> elements the page holds (text, value), its position, the
    \* retry_count of get_dropdown_options and the map built so far
    extract_fn, dropdown_options, extract_pc, retry_count, extracted_map,
    \* requests served by process_image_api: what each request holds, the step
    \* of the view it stands at, its response, the property_id of its closure
    \* (0 while unbound), the ids of the PropertyDetails rows, and the position
    \* of its background thread run_scraper
    requests, req_step, response, req_property_id, property_rows, thread_pc,
    \* how RTCScraper.run ended for its caller: "none" while it runs, then
    \* "returned" or "raised"
    run_result,
    \* RTCScraperIntegration._process_documents: the names of the files under
    \* documents/, the files the loop has gone through, the RTC rows (one per
    \* property, period and year) and the ScrapingLog rows
    documents_dir, processed_files, rtc_rows, scraping_logs,
    \* RTCScraperIntegration._save_dropdown_mappings: dropdown_mappings.json as
    \* it finds it, its position, the entry its loops stand at, and the
    \* DropdownMapping rows
    mappings_file, save_pc, save_i, mapping_rows,
    \* LandRecordImageProcessor._post_process_result (image_processor.py): the
    \* result dict, what the first call returned, and the calls made
    result, once_result, post_calls

fbmVars == <<target_name, options_map, fbm_pc, fbm_return>>

hissaVars == <<all_options, requested_hissa, hissa_pc, hissa_selected, hissa_return>>

indexVars == <<period_mapping, year_mapping, period_to_year_mapping, cache_file>>

resolverVars == <<year_period, resolver_pc, resolutions>>

runVars == <<site, run_pc, loop_i, attempted, outcomes, capture_args, documents,
             browser_open, setup_done, run_failed, form_log, form_raised,
             prior_cache, live_discovery, index_source, cache_written>>

waitVars == <<wait_impl, wait_selector, wait_timeout, wait_pc, elapsed,
              field_disabled, field_options, failed_polls, clicks>>

storeVars == <<scraped_images, store_pc, store_i, store_attempts, image_rows, store_errors>>

extractVars == <<extract_fn, dropdown_options, extract_pc, retry_count, extracted_map>>

apiVars == <<requests, req_step, response, req_property_id, property_rows, thread_pc>>

callerVars == <<run_result>>

procVars == <<documents_dir, processed_files, rtc_rows, scraping_logs>>

saveVars == <<mappings_file, save_pc, save_i, mapping_rows>>

postVars == <<result, once_result, post_calls>>

vars == <<fbmVars, hissaVars, indexVars, resolverVars, runVars, waitVars, storeVars, extractVars, apiVars, callerVars, procVars, saveVars, postVars>>

\* the three mappings as one value
Index == [period_mapping         |-> period_mapping,
          year_mapping           |-> year_mapping,
          period_to_year_mapping |-> period_to_year_mapping]

\* the injective sequences of at most n elements of S
Selections(S, n) ==
    UNION { { q \in [1..k -> S] : \A a, b \in 1..k : a # b => q[a] # q[b] } : k \in 0..n }

(***************************************************************************)
(* Specification of find_best_match: any target against any option map.    *)
(***************************************************************************)
MaxOptions == 3

\* <option> texts and values of the location dropdowns
OptionCatalog ==
    { <<"Bangalore Rural District", "21">>, <<"Bangalore Urban District", "5">>,
      <<"Kasaba", "2">>, <<"Kasaba Hobli", "3">>, <<"Hobli Kasaba North", "4">>,
      <<"Hobli", "8">>, <<"Kasaba Tavillageluk", "9">>, <<"Devanahalli", "61">> }

Targets ==
    { "Bangalore Rural", "Kasaba", " KASABA ", "Kasaba Hobli", "Kasaba Taluk",
      "Village", "Mysore", "North Taluk Kasaba" }

FbmIdle ==
    /\ target_name = "" /\ options_map = <<>>
    /\ fbm_pc = "idle" /\ fbm_return = PyNone

HissaIdle ==
    /\ all_options = <<>> /\ requested_hissa = ""
    /\ hissa_pc = "idle" /\ hissa_selected = PyNone /\ hissa_return = PyNone

\* RTCScraper.__init__: empty mappings; no cache file
IndexIdle ==
    /\ period_mapping = <<>> /\ year_mapping = <<>> /\ period_to_year_mapping = <<>>
    /\ cache_file = NoFile

ResolverIdle ==
    /\ year_period = "" /\ resolver_pc = "idle" /\ resolutions = <<>>

NoSite == [period_options |-> <<>>, year_options |-> <<>>]

RunIdle ==
    /\ site = NoSite /\ run_pc = "idle" /\ loop_i = 1
    /\ attempted = <<>> /\ outcomes = <<>> /\ capture_args = NotFound
    /\ documents = {} /\ browser_open = FALSE
    /\ setup_done = FALSE /\ run_failed = FALSE
    /\ form_log = <<>> /\ form_raised = FALSE
    /\ prior_cache = NoFile /\ live_discovery = "not_run"
    /\ index_source = "none" /\ cache_written = FALSE

StoreIdle ==
    /\ scraped_images = <<>> /\ store_pc = "idle" /\ store_i = 1
    /\ store_attempts = <<>> /\ image_rows = <<>> /\ store_errors = <<>>

ExtractIdle ==
    /\ extract_fn = "" /\ dropdown_options = <<>> /\ extract_pc = "idle"
    /\ retry_count = 0 /\ extracted_map = <<>>

ApiIdle ==
    /\ requests = <<>> /\ req_step = <<>> /\ response = <<>>
    /\ req_property_id = <<>> /\ property_rows = <<>> /\ thread_pc = <<>>

CallerIdle ==
    run_result = "none"

ProcIdle ==
    /\ documents_dir = {} /\ processed_files = {} /\ rtc_rows = {} /\ scraping_logs = {}

SaveIdle ==
    /\ mappings_file = NoFile /\ save_pc = "idle" /\ save_i = 1 /\ mapping_rows = {}

PostIdle ==
    /\ result = [District |-> "", Taluk |-> "", Surnoc |-> "", Village |-> ""] /\ once_result = result /\ post_calls = 0

WaitIdle ==
    /\ wait_impl = "" /\ wait_selector = "" /\ wait_timeout = 0
    /\ wait_pc = "idle" /\ elapsed = 0
    /\ field_disabled = PyNone /\ field_options = 0
    /\ failed_polls = 0 /\ clicks = 0

InitFindBestMatch ==
    /\ target_name \in Targets
    /\ options_map \in Selections(OptionCatalog, MaxOptions)
    /\ fbm_pc = "call"
    /\ fbm_return = PyNone
    /\ HissaIdle /\ IndexIdle /\ ResolverIdle /\ RunIdle /\ WaitIdle /\ StoreIdle /\ ExtractIdle /\ ApiIdle /\ CallerIdle /\ ProcIdle /\ SaveIdle /\ PostIdle

FindBestMatch ==
    /\ fbm_pc = "call"
    /\ fbm_return' = find_best_match(target_name, options_map)
    /\ fbm_pc' = "returned"
    /\ UNCHANGED <<target_name, options_map, hissaVars, indexVars, resolverVars, runVars, waitVars, storeVars, extractVars, apiVars, callerVars, procVars, saveVars, postVars>>

NextFindBestMatch == FindBestMatch

SpecFindBestMatch == InitFindBestMatch /\ [][NextFindBestMatch]_vars

\* the noise-word-stripped, case/space-normalized form of a label or target
StrippedForm(text) == simplify(StrStrip(StrLower(text)))

\* a and b are equal up to case and surrounding space
SameIgnoringCase(a, b) == StrStrip(StrLower(a)) = StrStrip(StrLower(b))

C2_ExactMatchWins ==
    fbm_pc = "returned" =>
        \A i, j \in 1..Len(options_map) :
            ( /\ i # j
              /\ SameIgnoringCase(options_map[i][1], target_name)
              /\ Len(options_map[j][1]) > Len(options_map[i][1])
              /\ StrContains(StrStrip(StrLower(target_name)), StrLower(options_map[j][1])) )
            => fbm_return = PyStr(options_map[i][2])

\* the precondition of C3 for the option at position i: no label equals the
\* target, and option i is the only one with the target's stripped form
C3_OnlyStrippedMatch(i) ==
    /\ \A j \in 1..Len(options_map) : ~SameIgnoringCase(options_map[j][1], target_name)
    /\ StrippedForm(options_map[i][1]) = StrippedForm(target_name)
    /\ \A j \in 1..Len(options_map) :
          j # i => StrippedForm(options_map[j][1]) # StrippedForm(target_name)

\* C3 as stated: when no label equals the target and exactly one label has the
\* target's stripped form, that label's value is returned.
C3_StrippedMatchWins ==
    fbm_pc = "returned" =>
        \A i \in 1..Len(options_map) :
            C3_OnlyStrippedMatch(i) => fbm_return = PyStr(options_map[i][2])

\* C3 (amended): the same, provided the target's stripped form is not empty
\* and no label's stripped form still holds a noise word (stripping it again
\* changes nothing); "Bangalore Rural" against the two Bangalore districts
\* yields "21".
C3_StrippedMatchWinsWhenNonEmpty ==
    fbm_pc = "returned" =>
        /\ \A i \in 1..Len(options_map) :
              ( /\ C3_OnlyStrippedMatch(i)
                /\ StrippedForm(target_name) # ""
                /\ \A j \in 1..Len(options_map) :
                      simplify(StrippedForm(options_map[j][1]))
                          = StrippedForm(options_map[j][1]) )
              => fbm_return = PyStr(options_map[i][2])
        /\ ( /\ target_name = "Bangalore Rural"
             /\ Len(options_map) = 2
             /\ {options_map[1], options_map[2]}
                   = { <<"Bangalore Rural District", "21">>,
                       <<"Bangalore Urban District", "5">> } )
           => fbm_return = PyStr("21")

\* C3 witness: "Kasaba Hobli" is the only label stripping to "kasaba"; the
\* label before it shares a word with the target "Kasaba Taluk"
C3_Witness ==
    /\ fbm_pc = "returned" /\ target_name = "Kasaba Taluk"
    /\ options_map = << <<"Hobli Kasaba North", "4">>, <<"Kasaba Hobli", "3">> >>
    /\ C3_OnlyStrippedMatch(2)
    /\ fbm_return = PyStr("3")

\* C4: with an empty option map find_best_match gives the failure outcome None,
\* which is no option value.
C4_EmptyMapFails ==
    (fbm_pc = "returned" /\ options_map = <<>>) => fbm_return = PyNone

\* C4 witness: a call with an empty map has returned None
C4_Witness ==
    /\ fbm_pc = "returned" /\ options_map = <<>> /\ target_name = "Kasaba"
    /\ fbm_return.isNone

\* option i's label contains the target or is contained in it, ignoring case
\* and surrounding space
LabelContainment(i) ==
    \/ StrContains(normalize(target_name), normalize(options_map[i][1]))
    \/ StrContains(normalize(options_map[i][1]), normalize(target_name))

\* neither the first lookup (the target lower-cased) nor the second (its
\* stripped form) finds a key, and no label equals the target or has its
\* stripped form
NoExactOrStrippedMatch ==
    /\ ~DictHas(normalized_options(options_map), normalize(target_name))
    /\ ~DictHas(normalized_options(options_map), simplify(normalize(target_name)))
    /\ \A i \in 1..Len(options_map) :
          /\ ~SameIgnoringCase(options_map[i][1], target_name)
          /\ StrippedForm(options_map[i][1]) # StrippedForm(target_name)

\* C15: when tiers 1 and 2 do not match, the containment tier returns the
\* value of the option with the longest label among the options whose label
\* contains the target or is contained in it (ignoring case); among equally
\* long labels the earliest in discovery order.
C15_LongestContainingLabel ==
    (fbm_pc = "returned" /\ NoExactOrStrippedMatch) =>
        \A i \in 1..Len(options_map) :
            ( /\ LabelContainment(i)
              /\ \A j \in 1..Len(options_map) :
                    LabelContainment(j) =>
                        \/ Len(options_map[j][1]) < Len(options_map[i][1])
                        \/ Len(options_map[j][1]) = Len(options_map[i][1]) /\ i <= j )
            => fbm_return = PyStr(options_map[i][2])

\* the number of whitespace-delimited lower-case tokens option i's label
\* shares with the target
SharedTokens(i) ==
    Cardinality(StrWords(normalize(target_name)) \cap StrWords(normalize(options_map[i][1])))

\* tiers 1-3 do not match: no lookup finds a key, no key and no label contains
\* the target or is contained in it
NoContainmentMatch ==
    /\ NoExactOrStrippedMatch
    /\ ~contains_match(normalize(target_name), normalized_options(options_map)).found
    /\ \A i \in 1..Len(options_map) : ~LabelContainment(i)

\* C16: when tiers 1-3 do not match, the value returned is that of the label
\* sharing the greatest number (> 0) of tokens with the target, the earliest
\* in discovery order among equals; when no label shares a token, it is the
\* value of the first entry of the option map.
C16_MostSharedTokens ==
    (fbm_pc = "returned" /\ options_map # <<>> /\ NoContainmentMatch) =>
        /\ \A i \in 1..Len(options_map) :
              ( /\ SharedTokens(i) > 0
                /\ \A j \in 1..Len(options_map) :
                      \/ SharedTokens(j) < SharedTokens(i)
                      \/ SharedTokens(j) = SharedTokens(i) /\ i <= j )
              => fbm_return = PyStr(options_map[i][2])
        /\ (\A i \in 1..Len(options_map) : SharedTokens(i) = 0)
              => fbm_return = PyStr(options_map[1][2])

(***************************************************************************)
(* Specification of select_hissa: any request against any hissa dropdown.  *)
(***************************************************************************)
MaxHissaOptions == 3

HissaCatalog ==
    { <<"Select Hissa", "0">>, <<"", "">>, <<"Select", "5">>,
      <<"1", "11">>, <<"one", "1">>, <<"1A", "7">>, <<"A1", "1A">>,
      <<"2", "2">>, <<"48", "48">> }

HissaRequests == {"1", "1A", "2", "3"}

InitSelectHissa ==
    /\ all_options \in Selections(HissaCatalog, MaxHissaOptions)
    /\ requested_hissa \in HissaRequests
    /\ hissa_pc = "call"
    /\ hissa_selected = PyNone
    /\ hissa_return = PyNone
    /\ FbmIdle /\ IndexIdle /\ ResolverIdle /\ RunIdle /\ WaitIdle /\ StoreIdle /\ ExtractIdle /\ ApiIdle /\ CallerIdle /\ ProcIdle /\ SaveIdle /\ PostIdle

\* select_hissa: page.locator(hissa_selector).select_option(selected_value) when a
\* value was found, then return selected_value
SelectHissa ==
    /\ hissa_pc = "call"
    /\ LET selected_value == hissa_selected_value(all_options, requested_hissa)
       IN  /\ hissa_selected' = IF Truthy(selected_value) THEN selected_value
                                ELSE hissa_selected
           /\ hissa_return' = selected_value
    /\ hissa_pc' = "returned"
    /\ UNCHANGED <<all_options, requested_hissa, fbmVars, indexVars, resolverVars, runVars, waitVars, storeVars, extractVars, apiVars, callerVars, procVars, saveVars, postVars>>

NextSelectHissa == SelectHissa

SpecSelectHissa == InitSelectHissa /\ [][NextSelectHissa]_vars

\* opts holds an option whose text or value is w
HasTextOrValue(opts, w) == \E k \in 1..Len(opts) : opts[k][1] = w \/ opts[k][2] = w

\* the value of the earliest option of opts whose text or value is w
EarliestTextOrValue(opts, w) ==
    opts[CHOOSE k \in 1..Len(opts) :
            /\ opts[k][1] = w \/ opts[k][2] = w
            /\ \A m \in 1..(k - 1) : opts[m][1] # w /\ opts[m][2] # w][2]

\* C9: a request for "1" with a "1A" option and no "1" option selects and
\* returns the "1A" option's value; with a "1" option that option is chosen;
\* for any other request the alias plays no part: the exact option if there
\* is one, else the first valid option (None when there is none).
C9_HissaAlias ==
    hissa_pc = "returned" =>
        LET valid == valid_options(all_options)
        IN  /\ ( /\ requested_hissa = "1"
                 /\ HasTextOrValue(valid, "1A") /\ ~HasTextOrValue(valid, "1") )
               => /\ hissa_return = PyStr(EarliestTextOrValue(valid, "1A"))
                  /\ hissa_selected = hissa_return
            /\ (requested_hissa = "1" /\ HasTextOrValue(valid, "1"))
               => /\ hissa_return = PyStr(EarliestTextOrValue(valid, "1"))
                  /\ hissa_selected = hissa_return
            /\ (requested_hissa # "1" /\ HasTextOrValue(valid, requested_hissa))
               => hissa_return = PyStr(EarliestTextOrValue(valid, requested_hissa))
            /\ (requested_hissa # "1" /\ ~HasTextOrValue(valid, requested_hissa))
               => hissa_return = IF valid = <<>> THEN PyNone ELSE PyStr(valid[1][2])

\* C9 witness: "1" requested, the dropdown holds "2" and then "1A", no "1"
C9_Witness ==
    /\ hissa_pc = "returned" /\ requested_hissa = "1"
    /\ all_options = << <<"Select Hissa", "0">>, <<"2", "2">>, <<"1A", "7">> >>
    /\ hissa_return = PyStr("7") /\ hissa_selected = PyStr("7")

(***************************************************************************)
(* Specification of the period/year resolvers: for any index that live     *)
(* discovery can build (every period has a year dict, possibly empty) and  *)
(* any fiscal label, both resolvers are called, the index is saved to      *)
(* dropdown_mappings.json and loaded back, and both are called again.      *)
(***************************************************************************)
MaxPeriods == 2

MaxYearEntries == 2

\* <option> texts and values of the period dropdown
PeriodCatalog ==
    { <<"FY 2012-2013", "14">>, <<"FY 2012-13", "15">>,
      <<"2001-08-25 00:00:00 To 2020-03-10 17:17:00", "9">> }

\* <option> texts and values of the year dropdown
YearCatalog ==
    { <<"2013-14", "100">>, <<"2012-2013", "101">>, <<"2012-13", "102">>,
      <<"Select Year", "-1">> }

\* the labels the resolvers are asked for: one of fiscal_year_patterns, one not
FiscalLabels == {"2012-13", "2012-2013"}

\* the year dicts one period can have
YearChoices == Selections(YearCatalog, MaxYearEntries)

RECURSIVE TotalYears(_, _)
TotalYears(ys, i) == IF i > Len(ys) THEN 0 ELSE Len(ys[i]) + TotalYears(ys, i + 1)

\* period_to_year_mapping[period_value] = period_years, in period order
PeriodToYear(pm, ys) == [i \in 1..Len(pm) |-> <<pm[i][2], ys[i]>>]

InitResolver ==
    /\ \E pm \in Selections(PeriodCatalog, MaxPeriods) :
       \E ys \in [1..Len(pm) -> YearChoices] :
          /\ TotalYears(ys, 1) <= MaxYearEntries
          /\ period_mapping = pm
          /\ period_to_year_mapping = PeriodToYear(pm, ys)
          /\ year_mapping = year_mapping_of(PeriodToYear(pm, ys))
    /\ cache_file = NoFile
    /\ year_period \in FiscalLabels
    /\ resolver_pc = "fresh"
    /\ resolutions = <<>>
    /\ FbmIdle /\ HissaIdle /\ RunIdle /\ WaitIdle /\ StoreIdle /\ ExtractIdle /\ ApiIdle /\ CallerIdle /\ ProcIdle /\ SaveIdle /\ PostIdle

\* a variant of the preamble that clears self.year_mapping
index_after_preamble_drops_years == [Index EXCEPT !.year_mapping = <<>>]

\* the preamble of _get_values_for_year_period: the cache file is read when it
\* exists and self.period_mapping is empty
index_after_preamble ==
    IF cache_file.exists /\ period_mapping = <<>>
    THEN json_load_mappings(cache_file)
    ELSE Index

\* RTCScraper._get_values_for_year_period(year_period)
CallScraperResolver ==
    /\ resolver_pc \in {"fresh", "resolved", "reloaded"}
    /\ LET index == index_after_preamble
       IN  /\ period_mapping' = index.period_mapping
           /\ year_mapping' = index.year_mapping
           /\ period_to_year_mapping' = index.period_to_year_mapping
           /\ resolutions' = Append(resolutions,
                 [fn |-> "scraper", after |-> resolver_pc,
                  pair |-> scraper_values_for_year_period(year_period, index)])
    /\ resolver_pc' = IF resolver_pc = "fresh" THEN "scraper_called"
                      ELSE "scraper_called_again"
    /\ UNCHANGED <<cache_file, year_period, fbmVars, hissaVars, runVars, waitVars, storeVars, extractVars, apiVars, callerVars, procVars, saveVars, postVars>>

\* DocumentProcessor.get_values_for_year_period(year_period, period_mapping,
\* year_mapping, period_to_year_mapping)
CallProcessorResolver ==
    /\ resolver_pc \in {"scraper_called", "scraper_called_again"}
    /\ resolutions' = Append(resolutions,
          [fn |-> "processor", after |-> resolver_pc,
           pair |-> get_values_for_year_period(year_period, Index)])
    /\ resolver_pc' = IF resolver_pc = "scraper_called" THEN "resolved" ELSE "done"
    /\ UNCHANGED <<indexVars, year_period, fbmVars, hissaVars, runVars, waitVars, storeVars, extractVars, apiVars, callerVars, procVars, saveVars, postVars>>

\* with open("dropdown_mappings.json", "w") as f: json.dump(mappings_data, f)
SaveMappings ==
    /\ resolver_pc = "resolved"
    /\ cache_file' = json_dump_mappings(Index)
    /\ resolver_pc' = "saved"
    /\ UNCHANGED <<period_mapping, year_mapping, period_to_year_mapping,
                   year_period, resolutions, fbmVars, hissaVars, runVars, waitVars, storeVars, extractVars, apiVars, callerVars, procVars, saveVars, postVars>>

\* with open("dropdown_mappings.json", "r") as f: mappings = json.load(f) and
\* the three assignments from it
LoadMappings ==
    /\ resolver_pc = "saved"
    /\ cache_file.exists
    /\ LET index == json_load_mappings(cache_file)
       IN  /\ period_mapping' = index.period_mapping
           /\ year_mapping' = index.year_mapping
           /\ period_to_year_mapping' = index.period_to_year_mapping
    /\ resolver_pc' = "reloaded"
    /\ UNCHANGED <<cache_file, year_period, resolutions, fbmVars, hissaVars, runVars, waitVars, storeVars, extractVars, apiVars, callerVars, procVars, saveVars, postVars>>

NextResolver ==
    \/ CallScraperResolver
    \/ CallProcessorResolver
    \/ SaveMappings
    \/ LoadMappings

SpecResolver == InitResolver /\ [][NextResolver]_vars

\* the variant list V of the fiscal label
Variants == patterns_for(year_period)

\* a year entry is the "Select Year" placeholder
PlaceholderYear(y) == y[1] = "Select Year"

\* the year dict stored for a period value (empty when there is none)
YearsOf(pv) ==
    IF DictHas(period_to_year_mapping, pv) THEN DictGet(period_to_year_mapping, pv) ELSE <<>>

\* period i is not the placeholder and its label contains variant k
PeriodContains(k, i) ==
    /\ period_mapping[i][1] # "Select Period"
    /\ StrContains(Variants[k], period_mapping[i][1])

\* <<k, i>> comes first among the pairs of C: variants in table order, then
\* periods in discovery order
FirstOf(C) ==
    CHOOSE c \in C : \A d \in C : c[1] < d[1] \/ (c[1] = d[1] /\ c[2] <= d[2])

\* the least element of a non-empty set of positions
Least(S) == CHOOSE a \in S : \A b \in S : a <= b

\* the year value C5 names for period i: the first year whose label satisfies
\* wanted, else the first non-placeholder year; None when the period has
\* no non-placeholder year
YearNamed(i, wanted(_)) ==
    LET years == YearsOf(period_mapping[i][2])
        hits  == {j \in 1..Len(years) : ~PlaceholderYear(years[j]) /\ wanted(years[j][1])}
        real  == {j \in 1..Len(years) : ~PlaceholderYear(years[j])}
    IN  IF hits # {} THEN PyStr(years[Least(hits)][2])
        ELSE IF real # {} THEN PyStr(years[Least(real)][2])
        ELSE PyNone

\* C5 as stated: when some non-placeholder period label contains a variant,
\* the resolvers return the first such period with its first year whose label
\* contains any variant or the fiscal label, else its first non-placeholder
\* year.
C5_FirstMatchingPeriod ==
    \A n \in 1..Len(resolutions) :
        LET C == {c \in (1..Len(Variants)) \X (1..Len(period_mapping)) :
                     PeriodContains(c[1], c[2])}
            AnyVariant(label) ==
                \/ \E k \in 1..Len(Variants) : StrContains(Variants[k], label)
                \/ StrContains(year_period, label)
        IN  C # {} =>
                LET i == FirstOf(C)[2]
                    y == YearNamed(i, AnyVariant)
                IN  /\ ~y.isNone
                    /\ resolutions[n].pair = Pair(period_mapping[i][2], y.val)

\* every year entry of the index has a non-empty label and a non-empty value
YearsWellFormed ==
    \A p \in 1..Len(period_to_year_mapping) :
        \A j \in 1..Len(period_to_year_mapping[p][2]) :
            /\ period_to_year_mapping[p][2][j][1] # ""
            /\ period_to_year_mapping[p][2][j][2] # ""

\* C5 (amended): over year entries with non-empty labels and values, the
\* resolvers return the first pair (variant v, period P), variants in table
\* order and periods in discovery order, such that P is no placeholder, P's
\* label contains v and P has a non-placeholder year; the year is P's first
\* non-placeholder year whose label contains v or the fiscal label, else P's
\* first non-placeholder year.
C5_FirstUsableMatchingPeriod ==
    \A n \in 1..Len(resolutions) :
        LET C == {c \in (1..Len(Variants)) \X (1..Len(period_mapping)) :
                     /\ PeriodContains(c[1], c[2])
                     /\ \E j \in 1..Len(YearsOf(period_mapping[c[2]][2])) :
                           ~PlaceholderYear(YearsOf(period_mapping[c[2]][2])[j])}
        IN  (YearsWellFormed /\ C # {}) =>
                LET k == FirstOf(C)[1]
                    i == FirstOf(C)[2]
                    ThisVariant(label) ==
                        StrContains(Variants[k], label) \/ StrContains(year_period, label)
                IN  resolutions[n].pair
                        = Pair(period_mapping[i][2], YearNamed(i, ThisVariant).val)

\* C5 witness: "FY 2012-13" holds only the short variant; its year "2012-2013"
\* holds only the long one, so its first year "2013-14" is returned, by both
\* resolvers; the period before it has no year and is passed over
C5_Witness ==
    /\ resolver_pc = "resolved" /\ year_period = "2012-13"
    /\ period_mapping = << <<"FY 2012-2013", "14">>, <<"FY 2012-13", "15">> >>
    /\ period_to_year_mapping
          = << <<"14", <<>> >>,
               <<"15", << <<"2013-14", "100">>, <<"2012-2013", "101">> >> >> >>
    /\ resolutions[1].pair = Pair("15", "100")
    /\ resolutions[2].pair = Pair("15", "100")

\* the index holds no period/year data
NoPeriodYearData == period_mapping = <<>> /\ period_to_year_mapping = <<>>

MaxLabels == 3

\* the labels the loop of a run goes through: the first MaxLabels of year_range
run_labels == SubSeq(year_range, 1, MaxLabels)

\* self.default_property: the fields that name a saved document
default_property == [survey_number |-> "22", hissa |-> "48"]

\* the filename of _save_document_data
document_filename(period, property_details) ==
    "documents/" \o property_details.survey_number \o "_" \o property_details.hissa
        \o "_" \o StrReplaceChar(period, "-", "_") \o ".png"

\* a capture that keeps the image in memory and writes no file
documents_after_capture_buffered(docs, kind, period) == docs

\* the files under documents/ after a call of _get_document_for_period that
\* ended as kind: _save_document_data writes the image before the call returns
documents_after_capture(docs, kind, period) ==
    IF kind = "saved"
    THEN docs \cup {document_filename(period, default_property)}
    ELSE docs

\* forms the site can show: one period per fiscal year, one period holding
\* all the years, and a period dropdown with nothing but its placeholder
Sites ==
    { [period_options |-> << <<"Select Period", "0">>, <<" FY 2012-2013 ", "14">>,
                             <<"FY 2013-2014", "16">> >>,
       year_options   |-> << <<"14", << <<"Select Year", "0">>, <<"2012-13", "102">> >> >>,
                             <<"16", << <<"Select Year", "0">>, <<"2013-14", "100">> >> >> >>],
      [period_options |-> << <<"Select Period", "0">>,
                             <<"2001-08-25 00:00:00 To 2020-03-10 17:17:00", "9">> >>,
       year_options   |-> << <<"9", << <<"Select Year", "0">>, <<"2013-14", "100">>,
                                       <<" 2012-13", "102">> >> >> >>],
      [period_options |-> << <<"Select Period", "0">> >>,
       year_options   |-> <<>>] }

EmptyIndex == [period_mapping |-> <<>>, year_mapping |-> <<>>,
               period_to_year_mapping |-> <<>>]

\* a dropdown_mappings.json that holds a year without a value
EditedCache ==
    [exists  |-> TRUE,
     members |-> << <<"period_mapping",
                      JsonObj(<< <<"FY 2012-2013", JsonStr("14")>>,
                                 <<"FY 2013-2014", JsonStr("16")>> >>)>>,
                    <<"year_mapping",
                      JsonObj(<< <<"2012-13", JsonStr("")>>,
                                 <<"2013-14", JsonStr("100")>> >>)>>,
                    <<"period_to_year_mapping",
                      JsonObj(<< <<"14", JsonObj(<< <<"2012-13", JsonStr("")>> >>)>>,
                                 <<"16", JsonObj(<< <<"2013-14", JsonStr("100")>> >>)>>
                              >>)>> >>]

\* the file before the run: none, one written by an earlier run against some
\* site, or one edited by hand
PriorCaches ==
    {NoFile, EditedCache}
        \cup { json_dump_mappings(extracted_index(s, EmptyIndex)) : s \in Sites }

InitRun ==
    /\ site \in Sites
    /\ cache_file \in PriorCaches
    /\ period_mapping = <<>> /\ year_mapping = <<>> /\ period_to_year_mapping = <<>>
    /\ run_pc = "launch" /\ loop_i = 1
    /\ attempted = <<>> /\ outcomes = <<>> /\ capture_args = NotFound
    /\ documents = {} /\ browser_open = FALSE
    /\ setup_done = FALSE /\ run_failed = FALSE
    /\ form_log = <<>> /\ form_raised = FALSE
    /\ prior_cache = cache_file /\ live_discovery = "not_run"
    /\ index_source = "none" /\ cache_written = FALSE
    /\ FbmIdle /\ HissaIdle /\ ResolverIdle /\ WaitIdle /\ StoreIdle /\ ExtractIdle /\ ApiIdle /\ CallerIdle /\ ProcIdle /\ SaveIdle /\ PostIdle

\* self.period_mapping, self.year_mapping, self.period_to_year_mapping = index
SetIndex(index) ==
    /\ period_mapping' = index.period_mapping
    /\ year_mapping' = index.year_mapping
    /\ period_to_year_mapping' = index.period_to_year_mapping

\* browser = playwright.chromium.launch(...); context = browser.new_context()
LaunchBrowser ==
    /\ run_pc = "launch"
    /\ browser_open' = TRUE
    /\ run_pc' = "fill_form"
    /\ UNCHANGED <<prior_cache, live_discovery, index_source, cache_written,
                   form_log, form_raised, site, loop_i, attempted, outcomes, capture_args, documents,
                   setup_done, run_failed, indexVars, fbmVars, hissaVars, resolverVars, waitVars, storeVars, extractVars, apiVars, callerVars, procVars, saveVars, postVars>>

\* page = context.new_page(); self._fill_initial_form(page, property_details):
\* it returns after its last page operation, or one of its page operations
\* raises (a wait raises TimeoutError when its bound is exceeded)
FillInitialForm ==
    /\ run_pc = "fill_form"
    /\ \E raised \in BOOLEAN, last \in 1..Len(form_operations) :
          /\ ~raised => last = Len(form_operations)
          /\ form_log' = SubSeq(form_operations, 1, last)
          /\ form_raised' = raised
          /\ run_pc' = after_form(raised)
    /\ UNCHANGED <<prior_cache, live_discovery, index_source, cache_written,
                   site, loop_i, attempted, outcomes, capture_args, documents,
                   browser_open, setup_done, run_failed,
                   indexVars, fbmVars, hissaVars, resolverVars, waitVars, storeVars, extractVars, apiVars, callerVars, procVars, saveVars, postVars>>

\* _extract_and_save_dropdown_mappings, no exception: live discovery, then
\* the mappings are written to dropdown_mappings.json
ExtractAndSaveDropdownMappings ==
    /\ run_pc = "extract"
    /\ LET index == extracted_index(site, Index)
       IN  /\ SetIndex(index)
           /\ cache_file' = json_dump_mappings(index)
    /\ live_discovery' = "completed"
    /\ index_source' = "live"
    /\ cache_written' = TRUE
    /\ setup_done' = TRUE
    /\ run_pc' = "loop"
    /\ UNCHANGED <<prior_cache,
                   form_log, form_raised, site, loop_i, attempted, outcomes, capture_args, documents,
                   browser_open, run_failed, fbmVars, hissaVars, resolverVars, waitVars, storeVars, extractVars, apiVars, callerVars, procVars, saveVars, postVars>>

\* _extract_and_save_dropdown_mappings, a page operation raises: at the wait
\* for the period dropdown, or in the loop over the periods once the period
\* options are read.  The handler loads the file if there is one and
\* re-raises otherwise.
ExtractDropdownMappingsFails ==
    /\ run_pc = "extract"
    /\ \E in_period_loop \in BOOLEAN :
          LET partial == IF in_period_loop THEN index_with_periods(site, Index)
                         ELSE Index
          IN  /\ in_period_loop => partial.period_mapping # <<>>
              /\ IF cache_file.exists
                 THEN /\ SetIndex(json_load_mappings(cache_file))
                      /\ index_source' = "cache"
                      /\ setup_done' = TRUE
                      /\ run_pc' = "loop"
                 ELSE /\ SetIndex(partial)
                      /\ index_source' = IF in_period_loop THEN "live" ELSE index_source
                      /\ setup_done' = FALSE
                      /\ run_pc' = "outer_except"
    /\ live_discovery' = "raised"
    /\ UNCHANGED <<prior_cache, cache_written,
                   form_log, form_raised, site, cache_file, loop_i, attempted, outcomes, capture_args,
                   documents, browser_open, run_failed,
                   fbmVars, hissaVars, resolverVars, waitVars, storeVars, extractVars, apiVars, callerVars, procVars, saveVars, postVars>>

\* the head of the loop body for the next label of year_range: the call of
\* _get_values_for_year_period and the test "if period_value and year_value"
ResolveLabel ==
    /\ run_pc = "loop"
    /\ loop_i <= Len(run_labels)
    /\ LET label == run_labels[loop_i]
           index == index_after_preamble
           pair  == scraper_values_for_year_period(label, index)
       IN  /\ attempted' = Append(attempted, label)
           /\ SetIndex(index)
           /\ index_source' = IF cache_file.exists /\ period_mapping = <<>>
                               THEN "cache" ELSE index_source
           /\ IF should_capture(pair)
              THEN /\ capture_args' = pair
                   /\ run_pc' = "capture"
                   /\ UNCHANGED <<outcomes, loop_i>>
              ELSE /\ outcomes' = Append(outcomes,
                          [label |-> label, pair |-> pair, capture_called |-> FALSE,
                           page_ops |-> <<>>, kind |-> "skipped"])
                   /\ capture_args' = NotFound
                   /\ loop_i' = loop_i + 1
                   /\ run_pc' = "loop"
    /\ UNCHANGED <<prior_cache, live_discovery, cache_written,
                   form_log, form_raised, site, cache_file, documents, browser_open, setup_done, run_failed,
                   fbmVars, hissaVars, resolverVars, waitVars, storeVars, extractVars, apiVars, callerVars, procVars, saveVars, postVars>>

\* self._get_document_for_period(page, year_period, property_details,
\* period_value, year_value)
GetDocumentForPeriod ==
    /\ run_pc = "capture"
    /\ \E e \in capture_endings :
          /\ outcomes' = Append(outcomes,
                [label |-> run_labels[loop_i], pair |-> capture_args,
                 capture_called |-> TRUE, page_ops |-> operations_through(e.at),
                 kind |-> e.kind])
          /\ documents' = documents_after_capture(documents, e.kind, run_labels[loop_i])
          /\ IF e.raises
             THEN run_pc' = "label_except" /\ loop_i' = loop_i
             ELSE run_pc' = "loop" /\ loop_i' = loop_i + 1
    /\ capture_args' = NotFound
    /\ UNCHANGED <<prior_cache, live_discovery, index_source, cache_written,
                   form_log, form_raised, site, attempted, browser_open, setup_done, run_failed,
                   indexVars, fbmVars, hissaVars, resolverVars, waitVars, storeVars, extractVars, apiVars, callerVars, procVars, saveVars, postVars>>

\* the loop's "except Exception": log, then page.screenshot(path=error_file);
\* the screenshot returns and the loop goes on, or it raises out of the loop
LabelExceptHandler ==
    /\ run_pc = "label_except"
    /\ \E screenshot_raises \in BOOLEAN :
          IF screenshot_raises
          THEN run_pc' = "outer_except" /\ loop_i' = loop_i
          ELSE run_pc' = "loop" /\ loop_i' = loop_i + 1
    /\ UNCHANGED <<prior_cache, live_discovery, index_source, cache_written,
                   form_log, form_raised, site, attempted, outcomes, capture_args, documents, browser_open,
                   setup_done, run_failed, indexVars, fbmVars, hissaVars, resolverVars, waitVars, storeVars, extractVars, apiVars, callerVars, procVars, saveVars, postVars>>

\* the loop is exhausted: "Scraping completed successfully"
LoopCompleted ==
    /\ run_pc = "loop"
    /\ loop_i > Len(run_labels)
    /\ run_pc' = "finally"
    /\ UNCHANGED <<prior_cache, live_discovery, index_source, cache_written,
                   form_log, form_raised, site, loop_i, attempted, outcomes, capture_args, documents,
                   browser_open, setup_done, run_failed,
                   indexVars, fbmVars, hissaVars, resolverVars, waitVars, storeVars, extractVars, apiVars, callerVars, procVars, saveVars, postVars>>

\* the outer "except Exception": a guarded screenshot, then raise
OuterExcept ==
    /\ run_pc = "outer_except"
    /\ run_failed' = TRUE
    /\ run_pc' = "finally"
    /\ UNCHANGED <<prior_cache, live_discovery, index_source, cache_written,
                   form_log, form_raised, site, loop_i, attempted, outcomes, capture_args, documents,
                   browser_open, setup_done, indexVars, fbmVars, hissaVars, resolverVars, waitVars, storeVars, extractVars, apiVars, callerVars, procVars, saveVars, postVars>>

\* a variant of the finally block that leaves the browser open
browser_after_finally_left_open(open) == open

\* finally: context.close(); browser.close()
browser_after_finally(open) == FALSE

\* run: try: self._run_workflow(...) except Exception as e: logger.error(...)
run_outcome(workflow_raised) == "returned"

\* finally: context.close(); browser.close(); then run() logs what was raised
Finally ==
    /\ run_pc = "finally"
    /\ browser_open' = browser_after_finally(browser_open)
    /\ run_result' = run_outcome(run_failed)
    /\ run_pc' = "done"
    /\ UNCHANGED <<prior_cache, live_discovery, index_source, cache_written,
                   form_log, form_raised, site, loop_i, attempted, outcomes, capture_args, documents,
                   setup_done, run_failed, indexVars, fbmVars, hissaVars, resolverVars, waitVars, storeVars, extractVars, apiVars, procVars, saveVars, postVars>>

Next ==
    \/ LaunchBrowser
    \/ FillInitialForm
    \/ ExtractAndSaveDropdownMappings
    \/ ExtractDropdownMappingsFails
    \/ ResolveLabel
    \/ GetDocumentForPeriod
    \/ LabelExceptHandler
    \/ LoopCompleted
    \/ OuterExcept
    \/ Finally

Spec == InitRun /\ [][Next]_vars

\* the run under the scheduling of its single thread: a step that can be
\* taken is taken (every page operation and every wait is bounded)
FairSpec == InitRun /\ [][Next]_vars /\ WF_vars(Next)

\* C7: once the initial form and the mapping extraction have succeeded, a
\* finished run has attempted every label of the range exactly once, in the
\* range's order, whatever happened while a label was processed (an exception
\* inside the label's error handler included).
C7_EveryLabelAttempted ==
    (run_pc = "done" /\ setup_done) => attempted = run_labels

\* a finished run whose loop was left from a label's error handler
C7_LoopAbandoned ==
    /\ run_pc = "done" /\ setup_done /\ run_failed
    /\ Len(attempted) < Len(run_labels)

\* both members of the pair are non-empty strings
BothValues(pair) == pair.found /\ pair.period_value # "" /\ pair.year_value # ""

\* C8: the capture is invoked for a label if and only if the resolver returned
\* both a period value and a year value for it; for a label without them no
\* page operation is issued, the label is recorded as skipped, and the loop
\* goes on to the next label (or ends normally after the last one).
C8_CaptureIffBothValues ==
    /\ run_pc = "capture" => BothValues(capture_args)
    /\ \A n \in 1..Len(outcomes) :
          LET o == outcomes[n]
          IN  /\ o.label = run_labels[n]
              /\ o.capture_called <=> BothValues(o.pair)
              /\ ~BothValues(o.pair) =>
                    /\ o.page_ops = <<>>
                    /\ o.kind = "skipped"
                    /\ loop_i > n
                    /\ Len(attempted) = n =>
                          run_pc \in {"loop", "finally", "done"} /\ ~run_failed
              /\ o.capture_called => o.page_ops # <<>>

\* a finished run that skipped one label and captured a document for another
C8_Witness ==
    /\ run_pc = "done"
    /\ \E n, m \in 1..Len(outcomes) :
          /\ outcomes[n].kind = "skipped" /\ outcomes[n].pair.period_value # ""
          /\ outcomes[m].kind = "saved"
          /\ n < m

\* the last operation _fill_initial_form issued is a wait that raised
FormWaitTimedOut ==
    /\ form_raised
    /\ form_log[Len(form_log)].kind = "wait"

\* C11: if a wait of the initial cascade (taluk, hobli, village, surnoc,
\* hissa) exceeds its bound, the run aborts: no label of year_range is
\* resolved or captured, and no document is emitted in that run.
C11_CascadeTimeoutAborts ==
    FormWaitTimedOut =>
        /\ run_pc \in {"outer_except", "finally", "done"}
        /\ run_pc = "done" => run_failed
        /\ ~setup_done
        /\ attempted = <<>> /\ outcomes = <<>>
        /\ documents = {}

\* a finished run whose wait for the hissa dropdown timed out
C11_Witness ==
    /\ run_pc = "done" /\ run_failed
    /\ FormWaitTimedOut
    /\ form_log[Len(form_log)].field = "hissa"

\* C12: the capture for one label never propagates a failure to its caller:
\* whatever times out, is missing or raises inside _get_document_for_period,
\* the call returns to the loop body and never ends in the loop's exception
\* handler.
C12_CaptureNeverPropagates ==
    /\ run_pc # "label_except"
    /\ \A n \in 1..Len(outcomes) :
          outcomes[n].capture_called =>
              \E e \in capture_endings : e.kind = outcomes[n].kind /\ ~e.raises

\* C13 as stated: when dropdown_mappings.json is present at the start of the
\* session the index is loaded from it and live discovery is skipped, and the
\* file is written only after a live discovery that completed.
C13_CacheSkipsDiscovery ==
    /\ (setup_done /\ prior_cache.exists) =>
          /\ live_discovery = "not_run"
          /\ index_source = "cache"
    /\ cache_written => live_discovery = "completed"

\* C13: live discovery is always attempted, whether or not the file is present
\* at the start.  The mappings are assigned from the file only after the live
\* discovery raised, or by the resolver while period_mapping is empty, and the
\* file then read is the one the run started with unless the run wrote it.
\* The file is written only after a live discovery that completed, and then
\* reading it back gives the discovered mappings.
C13_CacheIsTheFallback ==
    /\ setup_done => live_discovery \in {"completed", "raised"}
    /\ index_source = "cache" =>
          /\ live_discovery = "raised" \/ period_mapping = <<>>
          /\ Index = json_load_mappings(cache_file)
    /\ (index_source = "cache" /\ live_discovery = "raised") =>
          /\ prior_cache.exists
          /\ cache_file = prior_cache
    /\ cache_written <=> live_discovery = "completed"
    /\ cache_written =>
          /\ cache_file.exists
          /\ json_load_mappings(cache_file) = Index
    /\ ~cache_written => cache_file = prior_cache

\* a run that found the file at its start, discovered the options live all
\* the same and replaced the file with different contents
C13_Witness ==
    /\ prior_cache.exists
    /\ setup_done /\ live_discovery = "completed" /\ index_source = "live"
    /\ cache_written /\ cache_file # prior_cache
    /\ period_mapping # <<>>

\* the files of the labels whose capture ended with a saved document
SavedFiles ==
    { document_filename(outcomes[n].label, default_property) :
          n \in { m \in 1..Len(outcomes) : outcomes[m].kind = "saved" } }

\* C14: a captured document is written to the documents directory as soon as
\* it is captured and before the next label is processed: at every point of the
\* run, also after a later label failed or the run was aborted, the directory
\* holds the document of every label captured so far.
C14_CapturedDocumentsStayStored ==
    /\ documents = SavedFiles
    /\ Cardinality(documents)
          = Cardinality({m \in 1..Len(outcomes) : outcomes[m].kind = "saved"})
    /\ Len(attempted) <= Len(outcomes) + 1

\* an aborted run that had captured a document for an earlier label
C14_Witness ==
    /\ run_pc = "done" /\ run_failed
    /\ Len(outcomes) >= 2
    /\ outcomes[1].kind = "saved"
    /\ outcomes[Len(outcomes)].kind = "failed"
    /\ document_filename(outcomes[1].label, default_property) \in documents

\* the positions <<i, j>> of the pairs C17 allows: period i and year j under it,
\* neither of them a placeholder by value ("0") or by label
NonPlaceholderPairs ==
    { c \in (1..Len(period_mapping)) \X (1..MaxYearEntries + 1) :
          /\ c[2] <= Len(YearsOf(period_mapping[c[1]][2]))
          /\ period_mapping[c[1]][1] # "Select Period"
          /\ period_mapping[c[1]][2] # "0"
          /\ ~PlaceholderYear(YearsOf(period_mapping[c[1]][2])[c[2]])
          /\ YearsOf(period_mapping[c[1]][2])[c[2]][2] # "0" }

\* some year under the general catch-all period contains a variant
GeneralPeriodYearMatch ==
    \E g \in 1..Len(general_periods) :
        /\ DictHas(period_mapping, general_periods[g])
        /\ \E j \in 1..Len(YearsOf(DictGet(period_mapping, general_periods[g]))) :
           \E k \in 1..Len(Variants) :
              StrContains(Variants[k],
                          YearsOf(DictGet(period_mapping, general_periods[g]))[j][1])

\* C17: when no period label contains a variant and the general period yields
\* no year match, the resolvers return the first pair met going through the
\* periods in discovery order and, within each, the years in discovery order,
\* such that neither the period nor the year is a placeholder.
C17_FirstNonPlaceholderPair ==
    \A n \in 1..Len(resolutions) :
        ( /\ \A k \in 1..Len(Variants), i \in 1..Len(period_mapping) : ~PeriodContains(k, i)
          /\ ~GeneralPeriodYearMatch
          /\ NonPlaceholderPairs # {} )
        => LET c == FirstOf(NonPlaceholderPairs)
           IN  resolutions[n].pair
                   = Pair(period_mapping[c[1]][2],
                          YearsOf(period_mapping[c[1]][2])[c[2]][2])

\* the fields of the cascade, in the order the form depends on them
CascadeOrder ==
    <<"district", "taluk", "hobli", "village", "survey_number", "surnoc", "hissa">>

\* the fields whose options depend on the selection made before them
DependentFields == {"taluk", "hobli", "village", "surnoc", "hissa"}

IsCommit(op) == op.kind \in {"select", "fill"}

\* the fields committed so far, in the order of their commits
CommittedFields ==
    [p \in 1..Len(SelectSeq(form_log, IsCommit)) |->
        SelectSeq(form_log, IsCommit)[p].field]

\* C18: the cascade commits its fields strictly in the order district, taluk,
\* hobli, village, survey number, surnoc, hissa, and a dependent field is
\* selected only after the wait for that field has returned.
C18_CascadeInOrder ==
    /\ Len(CommittedFields) <= Len(CascadeOrder)
    /\ CommittedFields = SubSeq(CascadeOrder, 1, Len(CommittedFields))
    /\ \A p \in 1..Len(form_log) :
          (form_log[p].kind = "select" /\ form_log[p].field \in DependentFields)
          => \E q \in 1..(p - 1) :
                form_log[q] = [kind |-> "wait", field |-> form_log[p].field]

\* the whole cascade ran: the hissa, last of the seven fields, is committed
C18_Witness ==
    /\ ~form_raised
    /\ Len(CommittedFields) = Len(CascadeOrder)
    /\ form_log[Len(form_log)] = [kind |-> "select", field |-> "hissa"]

\* ---------------------------------------------------------------------
\* The two waits for a dropdown: DropdownHandler.wait_for_enabled
\* (dropdown_utils.py) and RTCScraper._wait_for_enabled (scraper.py)
\* ---------------------------------------------------------------------

\* the largest timeout, in seconds, a wait is called with
MaxTimeout == 3

\* the largest number of <option> elements the field holds
MaxFieldOptions == 2

\* the calls of the two waits in the source, by implementation and selector
WaitCalls ==
    { [impl |-> "RTCScraper._wait_for_enabled", selector |-> "#ctl00_MainContent_ddlOTaluk"],
      [impl |-> "RTCScraper._wait_for_enabled", selector |-> "#ctl00_MainContent_ddlOHobli"],
      [impl |-> "RTCScraper._wait_for_enabled", selector |-> "#ctl00_MainContent_ddlOVillage"],
      [impl |-> "RTCScraper._wait_for_enabled", selector |-> "#ctl00_MainContent_ddlOSurnocNo"],
      [impl |-> "RTCScraper._wait_for_enabled", selector |-> "#ctl00_MainContent_ddlOHissaNo"],
      [impl |-> "RTCScraper._wait_for_enabled", selector |-> "#ctl00_MainContent_ddlOPeriod"],
      [impl |-> "RTCScraper._wait_for_enabled", selector |-> "#ctl00_MainContent_ddlOYear"],
      [impl |-> "DropdownHandler.wait_for_enabled", selector |-> "#ctl00_MainContent_ddlOPeriod"],
      [impl |-> "DropdownHandler.wait_for_enabled", selector |-> "#ctl00_MainContent_ddlOYear"] }

\* what get_attribute("disabled") returns: None for a field without the
\* attribute, else the attribute's text
DisabledAttributes == {PyNone, PyStr("disabled"), PyStr("")}

\* selector.endswith("option")
EndsWithOption(selector) ==
    /\ Len(selector) >= Len("option")
    /\ SubSeq(selector, Len(selector) - Len("option") + 1, Len(selector)) = "option"

\* the locator whose matches wait_for_enabled counts
options_locator(selector) ==
    IF EndsWithOption(selector) THEN selector ELSE selector \o " option"

\* one pass of the loop body of DropdownHandler.wait_for_enabled, up to its
\* return or its click: where the call stands afterwards
wait_for_enabled_poll(disabled, options_count) ==
    IF ~Truthy(disabled)
    THEN IF options_count > 1 THEN "returned" ELSE "click"
    ELSE "click"

\* one pass of the loop body of RTCScraper._wait_for_enabled, up to its
\* return or its sleep
scraper_wait_for_enabled_poll(disabled, options_count) ==
    IF ~Truthy(disabled) THEN "returned" ELSE "sleep"

InitWait ==
    /\ \E call \in WaitCalls :
          /\ wait_impl = call.impl
          /\ wait_selector = call.selector
    /\ wait_timeout \in 1..MaxTimeout
    /\ wait_pc = "loop_test"
    /\ elapsed = 0
    /\ field_disabled \in DisabledAttributes
    /\ field_options \in 0..MaxFieldOptions
    /\ failed_polls = 0
    /\ clicks = 0
    /\ FbmIdle /\ HissaIdle /\ IndexIdle /\ ResolverIdle /\ RunIdle /\ StoreIdle /\ ExtractIdle /\ ApiIdle /\ CallerIdle /\ ProcIdle /\ SaveIdle /\ PostIdle

\* while time.time() - start_time < timeout: the test of the field
WaitPoll ==
    /\ wait_pc = "loop_test"
    /\ elapsed < wait_timeout
    /\ wait_pc' = IF wait_impl = "DropdownHandler.wait_for_enabled"
                  THEN wait_for_enabled_poll(field_disabled, field_options)
                  ELSE scraper_wait_for_enabled_poll(field_disabled, field_options)
    /\ failed_polls' = IF wait_pc' = "returned" THEN failed_polls ELSE failed_polls + 1
    /\ UNCHANGED <<wait_impl, wait_selector, wait_timeout, elapsed, field_disabled,
                   field_options, clicks, fbmVars, hissaVars, indexVars, resolverVars, runVars, storeVars, extractVars, apiVars, callerVars, procVars, saveVars, postVars>>

\* page.locator(selector).click(), whose exception is swallowed
WaitClick ==
    /\ wait_pc = "click"
    /\ clicks' = clicks + 1
    /\ wait_pc' = "sleep"
    /\ UNCHANGED <<wait_impl, wait_selector, wait_timeout, elapsed, field_disabled,
                   field_options, failed_polls, fbmVars, hissaVars, indexVars,
                   resolverVars, runVars, storeVars, extractVars, apiVars, callerVars, procVars, saveVars, postVars>>

\* time.sleep(1)
WaitSleep ==
    /\ wait_pc = "sleep"
    /\ elapsed' = elapsed + 1
    /\ wait_pc' = "loop_test"
    /\ UNCHANGED <<wait_impl, wait_selector, wait_timeout, field_disabled,
                   field_options, failed_polls, clicks, fbmVars, hissaVars, indexVars,
                   resolverVars, runVars, storeVars, extractVars, apiVars, callerVars, procVars, saveVars, postVars>>

\* the loop condition fails: raise TimeoutError
WaitTimeoutError ==
    /\ wait_pc = "loop_test"
    /\ elapsed >= wait_timeout
    /\ wait_pc' = "raised"
    /\ UNCHANGED <<wait_impl, wait_selector, wait_timeout, elapsed, field_disabled,
                   field_options, failed_polls, clicks, fbmVars, hissaVars, indexVars,
                   resolverVars, runVars, storeVars, extractVars, apiVars, callerVars, procVars, saveVars, postVars>>

\* the site changes the field between two polls
PageChanges ==
    /\ wait_pc \in {"click", "sleep"}
    /\ field_disabled' \in DisabledAttributes
    /\ field_options' \in 0..MaxFieldOptions
    /\ <<field_disabled', field_options'>> # <<field_disabled, field_options>>
    /\ UNCHANGED <<wait_impl, wait_selector, wait_timeout, wait_pc, elapsed,
                   failed_polls, clicks, fbmVars, hissaVars, indexVars,
                   resolverVars, runVars, storeVars, extractVars, apiVars, callerVars, procVars, saveVars, postVars>>

NextWait ==
    \/ WaitPoll
    \/ WaitClick
    \/ WaitSleep
    \/ WaitTimeoutError
    \/ PageChanges

SpecWait == InitWait /\ [][NextWait]_vars

\* C19: a wait returns success only when the field is not disabled and holds
\* more than one option; until then it polls again about once per second,
\* clicking the field before each new poll; when the bound is reached it
\* raises TimeoutError, so it never polls beyond the bound.
C19_WaitForEnabledContract ==
    /\ wait_pc = "returned" => (field_disabled = PyNone /\ field_options > 1)
    /\ wait_pc = "sleep" => clicks = failed_polls
    /\ wait_pc = "raised" => elapsed >= wait_timeout
    /\ elapsed <= wait_timeout

\* C20: once _extract_and_save_dropdown_mappings has built the index, no later
\* step of the run changes period_mapping, year_mapping or
\* period_to_year_mapping: the calls of _get_values_for_year_period and of
\* _get_document_for_period leave the three mappings as they were.
C20_IndexNeverMutated ==
    [][setup_done => UNCHANGED <<period_mapping, year_mapping, period_to_year_mapping>>]_vars

\* a finished run that built a non-empty index, resolved every label of the
\* range and captured a document
C20_Witness ==
    /\ setup_done
    /\ run_pc = "done"
    /\ period_mapping # <<>> /\ year_mapping # <<>>
    /\ Len(attempted) = Len(run_labels)
    /\ \E n \in 1..Len(outcomes) : outcomes[n].capture_called /\ outcomes[n].kind = "saved"

\* ---------------------------------------------------------------------
\* The loop of run_scraper (app.py) that stores the scraped images
\* ---------------------------------------------------------------------

\* the longest list of scraped images
MaxImages == 3

\* entries image_callback appends to scraped_images: the data of the image
\* and its metadata
ImageCatalog ==
    { [image |-> "png_2012_13", metadata |-> "2012-13"],
      [image |-> "png_2013_14", metadata |-> "2013-14"] }

\* the lists of at most n entries of S
ListsUpTo(S, n) == UNION { [1..k -> S] : k \in 0..n }

\* a variant of the loop that gives up at the first store that raises
next_after_store_error_gives_up(i, images) == Len(images) + 1

\* the position of the loop after the except branch of one image ("Continue
\* with the next image")
next_after_store_error(i, images) == i + 1

InitStoreImages ==
    /\ scraped_images \in ListsUpTo(ImageCatalog, MaxImages)
    /\ store_pc = "loop"
    /\ store_i = 1
    /\ store_attempts = <<>>
    /\ image_rows = <<>>
    /\ store_errors = <<>>
    /\ FbmIdle /\ HissaIdle /\ IndexIdle /\ ResolverIdle /\ RunIdle /\ WaitIdle /\ ExtractIdle /\ ApiIdle /\ CallerIdle /\ ProcIdle /\ SaveIdle /\ PostIdle

\* store_property_image(...) returns the id of the row it saved
StoreImageReturns ==
    /\ store_pc = "loop"
    /\ store_i <= Len(scraped_images)
    /\ store_attempts' = Append(store_attempts, store_i)
    /\ image_rows' = Append(image_rows, scraped_images[store_i])
    /\ store_i' = store_i + 1
    /\ UNCHANGED <<scraped_images, store_pc, store_errors, fbmVars, hissaVars,
                   indexVars, resolverVars, runVars, waitVars, extractVars, apiVars, callerVars, procVars, saveVars, postVars>>

\* store_property_image(...) raises: the inner except logs the error
StoreImageRaises ==
    /\ store_pc = "loop"
    /\ store_i <= Len(scraped_images)
    /\ store_attempts' = Append(store_attempts, store_i)
    /\ store_errors' = Append(store_errors, store_i)
    /\ store_i' = next_after_store_error(store_i, scraped_images)
    /\ UNCHANGED <<scraped_images, store_pc, image_rows, fbmVars, hissaVars,
                   indexVars, resolverVars, runVars, waitVars, extractVars, apiVars, callerVars, procVars, saveVars, postVars>>

\* the for loop is exhausted
StoreLoopEnds ==
    /\ store_pc = "loop"
    /\ store_i > Len(scraped_images)
    /\ store_pc' = "done"
    /\ UNCHANGED <<scraped_images, store_i, store_attempts, image_rows, store_errors,
                   fbmVars, hissaVars, indexVars, resolverVars, runVars, waitVars, extractVars, apiVars, callerVars, procVars, saveVars, postVars>>

NextStoreImages ==
    \/ StoreImageReturns
    \/ StoreImageRaises
    \/ StoreLoopEnds

SpecStoreImages == InitStoreImages /\ [][NextStoreImages]_vars

\* C21: a store that fails for one scraped image is logged and does not stop
\* the others: when the loop has ended, store_property_image has been
\* attempted once for every scraped image, in the order of the list, and
\* every image but the logged failures has its row.
C21_StoreFailureDoesNotStopOthers ==
    store_pc = "done" =>
        /\ store_attempts = [k \in 1..Len(scraped_images) |-> k]
        /\ Len(image_rows) + Len(store_errors) = Len(scraped_images)
        /\ \A k \in 1..Len(scraped_images) :
              (\A e \in 1..Len(store_errors) : store_errors[e] # k)
              => \E r \in 1..Len(image_rows) : image_rows[r] = scraped_images[k]

\* the store of the first image failed and that of a later one succeeded
C21_Witness ==
    /\ store_pc = "done"
    /\ Len(store_errors) >= 1 /\ store_errors[1] = 1
    /\ Len(scraped_images) >= 2
    /\ Len(image_rows) >= 1

\* ---------------------------------------------------------------------
\* Extraction of an option map: DropdownHandler.get_dropdown_options and
\* the loops of RTCScraper._extract_and_save_dropdown_mappings
\* ---------------------------------------------------------------------

\* the most <option> elements of the dropdown
MaxRawOptions == 2

\* max_retries = 3
max_retries == 3

\* <option> elements a period or year dropdown can hold, as (text, value)
RawOptionCatalog ==
    { <<"Select Year", "0">>, <<"Select Year", "-1">>, <<"Select Period", "">>,
      <<" 2012-13 ", "102">>, <<"2013-14", "100">> }

\* the functions that build an option map
ExtractFns == {"DropdownHandler.get_dropdown_options",
               "RTCScraper._extract_and_save_dropdown_mappings"}

InitExtract ==
    /\ extract_fn \in ExtractFns
    /\ dropdown_options \in Selections(RawOptionCatalog, MaxRawOptions)
    /\ extract_pc = "loop"
    /\ retry_count = 0
    /\ extracted_map = <<>>
    /\ FbmIdle /\ HissaIdle /\ IndexIdle /\ ResolverIdle /\ RunIdle /\ WaitIdle /\ StoreIdle /\ ApiIdle /\ CallerIdle /\ ProcIdle /\ SaveIdle /\ PostIdle

\* one pass of "while retry_count < max_retries and not options_map"
GetDropdownOptionsPass ==
    /\ extract_fn = "DropdownHandler.get_dropdown_options"
    /\ extract_pc = "loop"
    /\ retry_count < max_retries /\ extracted_map = <<>>
    /\ extracted_map' = extract_options(dropdown_options, extracted_map)
    /\ retry_count' = IF extracted_map' = <<>> THEN retry_count + 1 ELSE retry_count
    /\ UNCHANGED <<extract_fn, dropdown_options, extract_pc, fbmVars, hissaVars, indexVars,
                   resolverVars, runVars, waitVars, storeVars, apiVars, callerVars, procVars, saveVars, postVars>>

\* return options_map
GetDropdownOptionsReturns ==
    /\ extract_fn = "DropdownHandler.get_dropdown_options"
    /\ extract_pc = "loop"
    /\ ~(retry_count < max_retries /\ extracted_map = <<>>)
    /\ extract_pc' = "returned"
    /\ UNCHANGED <<extract_fn, dropdown_options, retry_count, extracted_map, fbmVars,
                   hissaVars, indexVars, resolverVars, runVars, waitVars, storeVars, apiVars, callerVars, procVars, saveVars, postVars>>

\* the page fills the dropdown between two passes
PageRepopulates ==
    /\ extract_fn = "DropdownHandler.get_dropdown_options"
    /\ extract_pc = "loop"
    /\ retry_count > 0 /\ retry_count < max_retries
    /\ dropdown_options' \in Selections(RawOptionCatalog, MaxRawOptions)
    /\ dropdown_options' # dropdown_options
    /\ UNCHANGED <<extract_fn, extract_pc, retry_count, extracted_map, fbmVars,
                   hissaVars, indexVars, resolverVars, runVars, waitVars, storeVars, apiVars, callerVars, procVars, saveVars, postVars>>

\* the loop over the period (or year) options of the live discovery
ExtractMappingLoop ==
    /\ extract_fn = "RTCScraper._extract_and_save_dropdown_mappings"
    /\ extract_pc = "loop"
    /\ extracted_map' = extract_options(dropdown_options, extracted_map)
    /\ extract_pc' = "returned"
    /\ UNCHANGED <<extract_fn, dropdown_options, retry_count, fbmVars,
                   hissaVars, indexVars, resolverVars, runVars, waitVars, storeVars, apiVars, callerVars, procVars, saveVars, postVars>>

NextExtract ==
    \/ GetDropdownOptionsPass
    \/ GetDropdownOptionsReturns
    \/ PageRepopulates
    \/ ExtractMappingLoop

SpecExtract == InitExtract /\ [][NextExtract]_vars

\* label starts with "Select"
SelectLabel(label) == Len(label) >= Len("Select") /\ SubSeq(label, 1, Len("Select")) = "Select"

\* C22: an extracted option map never holds a placeholder entry: no entry has
\* the value "0" or an empty value, and no entry has a label of the form
\* "Select ...".
C22_NoPlaceholderEntries ==
    \A k \in 1..Len(extracted_map) :
        /\ extracted_map[k][2] \notin {"0", ""}
        /\ ~SelectLabel(extracted_map[k][1])

\* ---------------------------------------------------------------------
\* process_image_api (app.py) and its background thread run_scraper
\* ---------------------------------------------------------------------

\* the most requests in flight
MaxRequests == 2

Requests == 1..MaxRequests

\* requests by method and by whether request.FILES holds 'image'
RequestCatalog ==
    { [method |-> "POST", image |-> TRUE],
      [method |-> "POST", image |-> FALSE],
      [method |-> "GET",  image |-> FALSE] }

NoResponse == [status |-> 0, property_id |-> 0]

\* a variant of the view that starts the thread before it stores the property
handler_steps_thread_first ==
    <<"check_method", "check_image", "process_image", "start_thread",
      "store_property_details", "prepare_response", "return_response">>

\* the steps of process_image_api, in program order
handler_steps ==
    <<"check_method", "check_image", "process_image", "store_property_details",
      "prepare_response", "start_thread", "return_response">>

\* the keyword arguments of the call scraper.run(...) in run_scraper
run_call_keywords == {"property_details", "headless", "image_callback", "clear_documents"}

\* the parameters of RTCScraper.run(self, property_details=None, headless=False)
run_parameters == {"property_details", "headless"}

\* a variant of the call that accepts any keyword
run_binds_any(keywords, parameters) == TRUE

\* Python binds a call's keywords to the parameters of the function; a
\* keyword that names no parameter raises TypeError before the body runs
run_binds(keywords, parameters) == keywords \subseteq parameters

\* the positions of a thread inside RTCScraper.run at which it writes
\* dropdown_mappings.json or a file of documents/
WritingPositions == {"write_cache", "save_document"}

InitApi ==
    /\ requests \in [Requests -> RequestCatalog]
    /\ req_step = [r \in Requests |-> 1]
    /\ response = [r \in Requests |-> NoResponse]
    /\ req_property_id = [r \in Requests |-> 0]
    /\ property_rows = <<>>
    /\ thread_pc = [r \in Requests |-> "none"]
    /\ FbmIdle /\ HissaIdle /\ IndexIdle /\ ResolverIdle /\ RunIdle /\ WaitIdle /\ StoreIdle /\ ExtractIdle /\ CallerIdle /\ ProcIdle /\ SaveIdle /\ PostIdle

AtStep(r, name) ==
    /\ response[r] = NoResponse
    /\ req_step[r] <= Len(handler_steps)
    /\ handler_steps[req_step[r]] = name

Respond(r, status) ==
    response' = [response EXCEPT ![r] = [status |-> status, property_id |-> 0]]

Advance(r) == req_step' = [req_step EXCEPT ![r] = @ + 1]

\* if request.method != 'POST': return JsonResponse(..., status=405)
CheckMethod(r) ==
    /\ AtStep(r, "check_method")
    /\ IF requests[r].method # "POST"
       THEN Respond(r, 405) /\ UNCHANGED req_step
       ELSE Advance(r) /\ UNCHANGED response
    /\ UNCHANGED <<requests, req_property_id, property_rows, thread_pc, fbmVars, hissaVars,
                   indexVars, resolverVars, runVars, waitVars, storeVars, extractVars, callerVars, procVars, saveVars, postVars>>

\* if 'image' not in request.FILES: return JsonResponse(..., status=400)
CheckImage(r) ==
    /\ AtStep(r, "check_image")
    /\ IF ~requests[r].image
       THEN Respond(r, 400) /\ UNCHANGED req_step
       ELSE Advance(r) /\ UNCHANGED response
    /\ UNCHANGED <<requests, req_property_id, property_rows, thread_pc, fbmVars, hissaVars,
                   indexVars, resolverVars, runVars, waitVars, storeVars, extractVars, callerVars, procVars, saveVars, postVars>>

\* LandRecordImageProcessor() and process_image_bytes: either can raise, and
\* the outer except answers with status 500
ProcessImage(r) ==
    /\ AtStep(r, "process_image")
    /\ \E raised \in BOOLEAN :
          IF raised
          THEN Respond(r, 500) /\ UNCHANGED req_step
          ELSE Advance(r) /\ UNCHANGED response
    /\ UNCHANGED <<requests, req_property_id, property_rows, thread_pc, fbmVars, hissaVars,
                   indexVars, resolverVars, runVars, waitVars, storeVars, extractVars, callerVars, procVars, saveVars, postVars>>

\* property_id = store_property_details(property_details): saves a row and
\* returns its id, or raises
StorePropertyDetails(r) ==
    /\ AtStep(r, "store_property_details")
    /\ \E raised \in BOOLEAN :
          IF raised
          THEN /\ Respond(r, 500)
               /\ UNCHANGED <<req_step, req_property_id, property_rows>>
          ELSE /\ property_rows' = Append(property_rows, Len(property_rows) + 1)
               /\ req_property_id' = [req_property_id EXCEPT ![r] = Len(property_rows) + 1]
               /\ Advance(r)
               /\ UNCHANGED response
    /\ UNCHANGED <<requests, thread_pc, fbmVars, hissaVars,
                   indexVars, resolverVars, runVars, waitVars, storeVars, extractVars, callerVars, procVars, saveVars, postVars>>

\* response = {"property_id": property_id, ...}: reading property_id before
\* it is bound raises
PrepareResponse(r) ==
    /\ AtStep(r, "prepare_response")
    /\ IF req_property_id[r] = 0
       THEN Respond(r, 500) /\ UNCHANGED req_step
       ELSE Advance(r) /\ UNCHANGED response
    /\ UNCHANGED <<requests, req_property_id, property_rows, thread_pc, fbmVars, hissaVars,
                   indexVars, resolverVars, runVars, waitVars, storeVars, extractVars, callerVars, procVars, saveVars, postVars>>

\* scraper_thread.start()
StartThread(r) ==
    /\ AtStep(r, "start_thread")
    /\ thread_pc' = [thread_pc EXCEPT ![r] = "started"]
    /\ Advance(r)
    /\ UNCHANGED <<requests, response, req_property_id, property_rows, fbmVars, hissaVars,
                   indexVars, resolverVars, runVars, waitVars, storeVars, extractVars, callerVars, procVars, saveVars, postVars>>

\* return JsonResponse(response)
ReturnResponse(r) ==
    /\ AtStep(r, "return_response")
    /\ response' = [response EXCEPT ![r] = [status |-> 200, property_id |-> req_property_id[r]]]
    /\ UNCHANGED <<requests, req_step, req_property_id, property_rows, thread_pc, fbmVars,
                   hissaVars, indexVars, resolverVars, runVars, waitVars, storeVars, extractVars, callerVars, procVars, saveVars, postVars>>

\* where the thread run_scraper stands after one step: the call of
\* scraper.run, the writes of the run, the store loop, the except handler
thread_next(pc) ==
    CASE pc = "started"       -> IF run_binds(run_call_keywords, run_parameters)
                                 THEN "write_cache" ELSE "type_error"
      [] pc = "write_cache"   -> "save_document"
      [] pc = "save_document" -> "store_images"
      [] pc = "store_images"  -> "ended"
      [] pc = "type_error"    -> "ended"
      [] OTHER                -> pc

\* one step of the background thread
RunScraperThread(r) ==
    /\ thread_pc[r] \notin {"none", "ended"}
    /\ thread_pc' = [thread_pc EXCEPT ![r] = thread_next(@)]
    /\ UNCHANGED <<requests, req_step, response, req_property_id, property_rows, fbmVars,
                   hissaVars, indexVars, resolverVars, runVars, waitVars, storeVars, extractVars, callerVars, procVars, saveVars, postVars>>

NextApi ==
    \E r \in Requests :
        \/ CheckMethod(r)
        \/ CheckImage(r)
        \/ ProcessImage(r)
        \/ StorePropertyDetails(r)
        \/ PrepareResponse(r)
        \/ StartThread(r)
        \/ ReturnResponse(r)
        \/ RunScraperThread(r)

SpecApi == InitApi /\ [][NextApi]_vars

PropertyStored(r) ==
    /\ req_property_id[r] # 0
    /\ \E k \in 1..Len(property_rows) : property_rows[k] = req_property_id[r]

\* the store of the property of request r raised
PropertyStoreFailed(r) ==
    /\ response[r] # NoResponse
    /\ handler_steps[req_step[r]] = "store_property_details"

\* C29: the property is stored before the background thread is started and
\* before the response is built, so the thread's store_property_image calls
\* refer to a stored property id; when storing the property fails, no thread
\* is started and the request answers with status 500.
C29_PropertyStoredBeforeThread ==
    \A r \in Requests :
        /\ thread_pc[r] # "none" => PropertyStored(r)
        /\ response[r].status = 200 =>
              (PropertyStored(r) /\ response[r].property_id = req_property_id[r])
        /\ PropertyStoreFailed(r) => (thread_pc[r] = "none" /\ response[r].status = 500)

\* one request was answered with its stored property id after its thread was
\* started, and the store of the other failed
C29_Witness ==
    /\ response[1].status = 200 /\ thread_pc[1] # "none"
    /\ PropertyStoreFailed(2)

\* C24: RTCScraper._get_values_for_year_period and
\* DocumentProcessor.get_values_for_year_period return the same pair for the
\* same fiscal label and the same index.
C24_ResolversAgree ==
    \A n, m \in 1..Len(resolutions) :
        (resolutions[n].fn = "scraper" /\ resolutions[m].fn = "processor")
        => resolutions[n].pair = resolutions[m].pair

\* C25: every execution of _run_workflow eventually closes the browser context
\* and the browser, whichever way it leaves (normal completion, a timeout of
\* the cascade, a failed extraction, an exception escaping the loop), and
\* RTCScraper.run never raises an exception of the workflow to its caller.
C25_BrowserEventuallyClosed ==
    /\ <>(run_pc = "done" /\ ~browser_open /\ run_result = "returned")
    /\ [](run_result # "raised")

\* a run ended by an exception that escaped the per-label loop: the browser
\* is closed and run has returned
C25_Witness ==
    /\ run_pc = "done" /\ run_failed /\ setup_done
    /\ ~browser_open /\ run_result = "returned"

\* the popup the "View" click of call o opened was not closed by that call
PopupLeftOpen(o) ==
    /\ \E k \in 1..Len(o.page_ops) : o.page_ops[k] = "wait_load_popup"
    /\ \A k \in 1..Len(o.page_ops) : o.page_ops[k] # "close_popup"

\* C26: every document popup opened by the "View" click of
\* _get_document_for_period is closed before the call ends, on every path,
\* also when the screenshot or the save raises: no popup is open when the next
\* label is processed.
C26_PopupAlwaysClosed ==
    \A n \in 1..Len(outcomes) :
        outcomes[n].capture_called => ~PopupLeftOpen(outcomes[n])

\* ---------------------------------------------------------------------
\* RTCScraperIntegration._process_documents (rtc_scraper.py)
\* ---------------------------------------------------------------------

\* the most files under documents/
MaxFiles == 2

RECURSIVE StrAfterLast(_, _)
\* s.split(ch)[-1]: what follows the last ch of s
StrAfterLast(s, ch) ==
    IF ~StrContains(ch, s) THEN s
    ELSE StrAfterLast(SubSeq(s, 2, Len(s)), ch)

\* file_path.name
file_name(path) == StrAfterLast(path, "/")

\* s[:n]
StrHead(s, n) == SubSeq(s, 1, IF Len(s) < n THEN Len(s) ELSE n)

\* s[-n:]
StrTail(s, n) == SubSeq(s, (IF Len(s) < n THEN 0 ELSE Len(s) - n) + 1, Len(s))

\* period_year = filename.split('_')[-1].replace('.png', '').replace('_', '-')
period_year_of(filename) ==
    StrReplaceChar(StrRemove(StrAfterLast(filename, "_"), ".png"), "_", "-")

\* the (period, year) of the RTC row: period_year[:7], period_year[-2:]
rtc_key(filename) ==
    [period |-> StrHead(period_year_of(filename), 7),
     year   |-> StrTail(period_year_of(filename), 2)]

\* documents_dir.glob(f"{survey_number}_{hissa}_*.png")
glob_matches(name, property_obj) ==
    LET prefix == property_obj.survey_number \o "_" \o property_obj.hissa \o "_"
    IN  /\ Len(name) >= Len(prefix) + Len(".png")
        /\ SubSeq(name, 1, Len(prefix)) = prefix
        /\ StrTail(name, Len(".png")) = ".png"

\* the files a run of the scraper can have saved for the property
SavedDocuments == { document_filename(year_range[k], default_property) : k \in 1..Len(year_range) }

InitProcessDocuments ==
    /\ documents_dir \in { d \in SUBSET SavedDocuments : Cardinality(d) <= MaxFiles }
    /\ processed_files = {}
    /\ rtc_rows = {}
    /\ scraping_logs = {}
    /\ FbmIdle /\ HissaIdle /\ IndexIdle /\ ResolverIdle /\ RunIdle /\ WaitIdle /\ StoreIdle /\ ExtractIdle /\ ApiIdle /\ CallerIdle /\ SaveIdle /\ PostIdle

\* one pass of the loop over the matching files: RTC.objects.update_or_create
\* keeps one row per (property, period, year); a raise is logged as "Failed"
ProcessDocument ==
    \E path \in documents_dir \ processed_files :
        /\ glob_matches(file_name(path), default_property)
        /\ processed_files' = processed_files \cup {path}
        /\ \E raised \in BOOLEAN :
              LET key == rtc_key(file_name(path))
              IN  IF raised
                  THEN /\ scraping_logs' = scraping_logs \cup
                              {[period |-> key.period, year |-> key.year, status |-> "Failed"]}
                       /\ UNCHANGED rtc_rows
                  ELSE /\ rtc_rows' =
                              { row \in rtc_rows : ~(row.period = key.period /\ row.year = key.year) }
                              \cup {[period |-> key.period, year |-> key.year,
                                     document_image |-> path]}
                       /\ scraping_logs' = scraping_logs \cup
                              {[period |-> key.period, year |-> key.year, status |-> "Success"]}
        /\ UNCHANGED <<documents_dir, fbmVars, hissaVars, indexVars, resolverVars, runVars,
                       waitVars, storeVars, extractVars, apiVars, callerVars, saveVars, postVars>>

NextProcessDocuments == ProcessDocument

SpecProcessDocuments == InitProcessDocuments /\ [][NextProcessDocuments]_vars

\* C27: the fiscal label _save_document_data writes into a file name is
\* recovered by _process_documents: the row of the file saved for a label has
\* that label as period and its last two digits as year, and the files of two
\* labels of year_range never get the same (period, year).
C27_LabelRecoveredFromFileName ==
    /\ \A k \in 1..Len(year_range) :
          \A row \in rtc_rows :
              row.document_image = document_filename(year_range[k], default_property)
              => (row.period = year_range[k] /\ row.year = StrTail(year_range[k], 2))
    /\ \A j, k \in 1..Len(year_range) :
          j # k => rtc_key(file_name(document_filename(year_range[j], default_property)))
                   # rtc_key(file_name(document_filename(year_range[k], default_property)))

\* ---------------------------------------------------------------------
\* RTCScraperIntegration._save_dropdown_mappings (rtc_scraper.py)
\* ---------------------------------------------------------------------

DecimalDigits == "0123456789"

IsDigit(c) == \E d \in 1..Len(DecimalDigits) : SubSeq(DecimalDigits, d, d) = c

\* the digits of a numeral, after int() has stripped blanks and a sign
numeral_digits(v) ==
    LET t == StrStrip(v)
    IN  IF t # "" /\ SubSeq(t, 1, 1) \in {"-", "+"} THEN SubSeq(t, 2, Len(t)) ELSE t

\* int(v) returns a number: otherwise it raises ValueError
int_converts(v) ==
    /\ numeral_digits(v) # ""
    /\ \A i \in 1..Len(numeral_digits(v)) : IsDigit(SubSeq(numeral_digits(v), i, i))

RECURSIVE DigitsValue(_, _)
DigitsValue(ds, acc) ==
    IF ds = "" THEN acc
    ELSE DigitsValue(SubSeq(ds, 2, Len(ds)),
             10 * acc + (CHOOSE d \in 1..Len(DecimalDigits) :
                             SubSeq(DecimalDigits, d, d) = SubSeq(ds, 1, 1)) - 1)

\* int(v), for a v that converts
int_value(v) ==
    IF SubSeq(StrStrip(v), 1, 1) = "-" THEN 0 - DigitsValue(numeral_digits(v), 0)
    ELSE DigitsValue(numeral_digits(v), 0)

\* period options whose values the scraper can have written to the file
MappingPeriodCatalog == PeriodCatalog \cup { <<"FY 2014-15", "15-164943">> }

\* the entries the two loops go through: those of period_mapping, then those
\* of year_mapping, each with its dropdown_type
mapping_entries(file) ==
    LET m == json_load_mappings(file)
    IN  [i \in 1..Len(m.period_mapping) |->
            [dropdown_type |-> "Period", dropdown_value |-> m.period_mapping[i][1],
             value |-> m.period_mapping[i][2]]]
        \o [i \in 1..Len(m.year_mapping) |->
            [dropdown_type |-> "Year", dropdown_value |-> m.year_mapping[i][1],
             value |-> m.year_mapping[i][2]]]

\* where the function stands after int(value) raised at entry i: the only
\* try of the function encloses both loops, its except prints and returns
after_value_error(i, entries) ==
    [pc |-> "error", i |-> i]

InitSaveMappings ==
    /\ mappings_file \in {NoFile} \cup
          { json_dump_mappings([period_mapping |-> pm,
                                year_mapping |-> ym,
                                period_to_year_mapping |-> <<>>]) :
              pm \in Selections(MappingPeriodCatalog, MaxPeriods),
              ym \in Selections(YearCatalog, MaxYearEntries) }
    /\ save_pc = "call"
    /\ save_i = 1
    /\ mapping_rows = {}
    /\ FbmIdle /\ HissaIdle /\ IndexIdle /\ ResolverIdle /\ RunIdle /\ WaitIdle /\ StoreIdle /\ ExtractIdle /\ ApiIdle /\ CallerIdle /\ ProcIdle /\ PostIdle

\* if not mapping_file.exists(): return; else json.load
OpenMappingsFile ==
    /\ save_pc = "call"
    /\ save_pc' = IF mappings_file.exists THEN "loop" ELSE "no_file"
    /\ UNCHANGED <<mappings_file, save_i, mapping_rows, fbmVars, hissaVars, indexVars,
                   resolverVars, runVars, waitVars, storeVars, extractVars, apiVars,
                   callerVars, procVars, postVars>>

\* one pass of the period loop or of the year loop:
\* DropdownMapping.objects.update_or_create(..., defaults={"mapped_index": int(value)})
SaveNextMapping ==
    /\ save_pc = "loop"
    /\ save_i <= Len(mapping_entries(mappings_file))
    /\ LET e == mapping_entries(mappings_file)[save_i]
       IN  IF int_converts(e.value)
           THEN /\ mapping_rows' =
                      { row \in mapping_rows :
                          ~(row.dropdown_type = e.dropdown_type
                            /\ row.dropdown_value = e.dropdown_value) }
                      \cup {[dropdown_type |-> e.dropdown_type,
                             dropdown_value |-> e.dropdown_value,
                             mapped_index |-> int_value(e.value)]}
                /\ save_i' = save_i + 1
                /\ UNCHANGED save_pc
           ELSE /\ save_pc' = after_value_error(save_i, mapping_entries(mappings_file)).pc
                /\ save_i' = after_value_error(save_i, mapping_entries(mappings_file)).i
                /\ UNCHANGED mapping_rows
    /\ UNCHANGED <<mappings_file, fbmVars, hissaVars, indexVars,
                   resolverVars, runVars, waitVars, storeVars, extractVars, apiVars,
                   callerVars, procVars, postVars>>

\* both loops are exhausted: "Saved dropdown mappings to database"
SaveMappingsDone ==
    /\ save_pc = "loop"
    /\ save_i > Len(mapping_entries(mappings_file))
    /\ save_pc' = "saved"
    /\ UNCHANGED <<mappings_file, save_i, mapping_rows, fbmVars, hissaVars, indexVars,
                   resolverVars, runVars, waitVars, storeVars, extractVars, apiVars,
                   callerVars, procVars, postVars>>

NextSaveMappings ==
    \/ OpenMappingsFile
    \/ SaveNextMapping
    \/ SaveMappingsDone

SpecSaveMappings == InitSaveMappings /\ [][NextSaveMappings]_vars

\* C28: _save_dropdown_mappings records one DropdownMapping for every entry of
\* period_mapping and of year_mapping of the file, whatever values the scraper
\* wrote there: a value that does not convert does not keep the remaining
\* entries from being saved.
C28_EveryConvertibleEntrySaved ==
    save_pc \in {"saved", "error"} =>
        \A k \in 1..Len(mapping_entries(mappings_file)) :
            int_converts(mapping_entries(mappings_file)[k].value)
            => \E row \in mapping_rows :
                  /\ row.dropdown_type = mapping_entries(mappings_file)[k].dropdown_type
                  /\ row.dropdown_value = mapping_entries(mappings_file)[k].dropdown_value

\* ---------------------------------------------------------------------
\* LandRecordImageProcessor._post_process_result (image_processor.py)
\* ---------------------------------------------------------------------

\* self.taluk_to_district
taluk_to_district ==
    << <<"Devanahalli", "Bangalore Rural">>, <<"Doddaballapura", "Bangalore Rural">>,
       <<"Nelamangala", "Bangalore Rural">>, <<"Hoskote", "Bangalore Rural">>,
       <<"Bangalore North", "Bangalore Urban">>, <<"Bangalore South", "Bangalore Urban">>,
       <<"Bangalore East", "Bangalore Urban">>, <<"Anekal", "Bangalore Urban">>,
       <<"Mysore", "Mysore">>, <<"Mandya", "Mandya">>, <<"Tumkur", "Tumkur">>,
       <<"Hassan", "Hassan">>, <<"Mangalore", "Dakshina Kannada">>, <<"Udupi", "Udupi">>,
       <<"Hubli", "Dharwad">>, <<"Dharwad", "Dharwad">>, <<"Belgaum", "Belgaum">>,
       <<"Gulbarga", "Gulbarga">>, <<"Bijapur", "Bijapur">>, <<"Bellary", "Bellary">>,
       <<"Raichur", "Raichur">>, <<"Shimoga", "Shimoga">>,
       <<"Chitradurga", "Chitradurga">>, <<"Davangere", "Davangere">>,
       <<"Kolar", "Kolar">>, <<"Chikkaballapur", "Chikkaballapur">>,
       <<"Ramanagara", "Ramanagara">>, <<"Chamarajanagar", "Chamarajanagar">>,
       <<"Kodagu", "Kodagu">>, <<"Chikmagalur", "Chikmagalur">>, <<"Haveri", "Haveri">>,
       <<"Gadag", "Gadag">>, <<"Koppal", "Koppal">>, <<"Bagalkot", "Bagalkot">>,
       <<"Bidar", "Bidar">>, <<"Yadgir", "Yadgir">> >>

\* s.split(ch)[0]: what precedes the first ch, all of s when there is none
StrBeforeFirst(s, ch) ==
    IF \E i \in 1..Len(s) : SubSeq(s, i, i) = ch
    THEN SubSeq(s, 1, (CHOOSE i \in 1..Len(s) :
                          /\ SubSeq(s, i, i) = ch
                          /\ \A j \in 1..(i - 1) : SubSeq(s, j, j) # ch) - 1)
    ELSE s

\* taluk_clean
taluk_clean(taluk) == StrStrip(StrBeforeFirst(taluk, "("))

\* the "Infer district from taluk" step
infer_district(r) ==
    IF /\ r.District \in {"N/A", "Not found"}
       /\ r.Taluk \notin {"N/A", "Not found"}
       /\ \E i \in 1..Len(taluk_to_district) : taluk_to_district[i][1] = taluk_clean(r.Taluk)
    THEN [r EXCEPT !.District = DictGet(taluk_to_district, taluk_clean(r.Taluk))]
    ELSE r

\* the "Set default value for Surnoc" step
default_surnoc(r) ==
    IF r.Surnoc \in {"N/A", "Not found", ""} THEN [r EXCEPT !.Surnoc = "*"] ELSE r

\* the Village spelling step
correct_village(r) ==
    IF r.Village = "Devanahalli" /\ r.Taluk = "Devanahalli"
    THEN [r EXCEPT !.Village = "Devenahalli"]
    ELSE r

\* the Taluk spelling step
correct_taluk(r) ==
    IF r.Taluk = "Devenahalli" THEN [r EXCEPT !.Taluk = "Devanahalli"] ELSE r

\* _post_process_result(result): the four steps in the order of the code
post_process_result(r) ==
    correct_taluk(correct_village(default_surnoc(infer_district(r))))

\* the values the parsed fields take in the inputs
DistrictCatalog == {"N/A", "Not found", "Bangalore Rural"}
TalukCatalog == {"N/A", "Devanahalli", "Devenahalli", "Devanahalli (Rural)", "Mysore", "Sira"}
SurnocCatalog == {"", "N/A", "*", "2"}
VillageCatalog == {"Devanahalli", "Devenahalli", "N/A"}

InitPostProcess ==
    /\ result \in [District : DistrictCatalog, Taluk : TalukCatalog,
                   Surnoc : SurnocCatalog, Village : VillageCatalog]
    /\ once_result = result
    /\ post_calls = 0
    /\ FbmIdle /\ HissaIdle /\ IndexIdle /\ ResolverIdle /\ RunIdle /\ WaitIdle /\ StoreIdle /\ ExtractIdle /\ ApiIdle /\ CallerIdle /\ ProcIdle /\ SaveIdle

\* result = self._post_process_result(result), called on what the previous
\* call returned
PostProcessResult ==
    /\ post_calls < 2
    /\ result' = post_process_result(result)
    /\ once_result' = IF post_calls = 0 THEN post_process_result(result) ELSE once_result
    /\ post_calls' = post_calls + 1
    /\ UNCHANGED <<fbmVars, hissaVars, indexVars, resolverVars, runVars, waitVars,
                   storeVars, extractVars, apiVars, callerVars, procVars, saveVars>>

NextPostProcess == PostProcessResult

SpecPostProcess == InitPostProcess /\ [][NextPostProcess]_vars

\* C30: _post_process_result is idempotent: applying it to its own result
\* gives that result again.
C30_PostProcessIdempotent ==
    post_calls = 2 => result = once_result

====
